---- MODULE Spec2Model ----
(***************************************************************************)
(* A model of the session packet-I/O layer of wintun-bindings:             *)
(*   src/src/adapter.rs        Adapter::start_session, Drop for Adapter    *)
(*   src/src/session.rs        Session (receive, wait, shutdown, Drop)     *)
(*   src/src/handle.rs         SafeEvent (manual-reset shutdown event)     *)
(*   src/src/async_session.rs  AsyncSession (poll_read, recv, poll_close)  *)
(*                                                                         *)
(* One Adapter hosts Sessions one after the other.  A Session is shared    *)
(* through Arc<Session> by NumThreads OS threads, by the Packets handed    *)
(* out of it, and by AsyncSession adapters made from a thread's reference. *)
(* The driver and the OS are the environment: the driver queues received   *)
(* packets and signals the auto-reset read event, WaitForMultipleObjects   *)
(* releases a waiter with the index of the event that satisfied it.        *)
(* A wait on two valid event handles does not fail; SetEvent, CreateEventW *)
(* and the driver calls may fail, as the code's error branches expect.     *)
(***************************************************************************)
EXTENDS Integers, Sequences, FiniteSets, TLC

\* ---- bounds of the model
NumThreads == 2
NumAsync == 1
NumClones == 1
MaxSessions == 1
MaxRing == 1
MaxSize == 2
MaxSendRing == 2
MaxSend == 3
MaxOtherCalls == 2

\* ---- program constants
SpinTries == 5
WAIT_OBJECT_0 == 0
WAIT_OBJECT_1 == WAIT_OBJECT_0 + 1
WAIT_ABANDONED_0 == 128
WAIT_ABANDONED_1 == WAIT_ABANDONED_0 + 1
\* 0xFFFFFFFF, written as the 32-bit value it is (TLC integers are 32 bits wide)
WAIT_FAILED == -1
\* u16::MAX: the largest size of a packet (size: u16)
U16_MAX == 65535
\* crate::MIN_RING_CAPACITY and crate::MAX_RING_CAPACITY: bounds of the range
\* of validate_capacity, chosen so that 64 lies below it and 4096 and 5000
\* lie inside it.
MIN_RING_CAPACITY == 128
MAX_RING_CAPACITY == 8192

Threads == 1..NumThreads
\* AsyncSessions made from the Session, and those made by AsyncSession::clone
Originals == 1..NumAsync
Adapters == 1..(NumAsync + NumClones)
Clones == Adapters \ Originals
Sizes == 1..MaxSize
\* the contents a caller may want to send
Tags == {"x", "y"}
\* lengths of the buffers given to send: the least, the greatest that fits a
\* u16, and one that does not fit
SendLens == {1, U16_MAX, U16_MAX + 2}
SendBufs == [len : SendLens, tag : Tags]
\* One offloaded wait per AsyncSession in read_state (poll_read) and one per
\* AsyncSession::recv future.
Slots == Adapters \X {"poll_read", "recv"}

VARIABLES
    \* Adapter (adapter.rs:27)
    adapterRef,      \* the user still holds its Arc<Adapter>
    adapter,         \* Adapter.adapter: "open" | "null"
    closeCalls,      \* calls of WintunCloseAdapter
    adapterDrop,     \* path taken by Drop for Adapter: "none" | "clean" | "name_failed" | "reg_failed"
    \* Session (session.rs:12)
    sessPc,          \* "none" | "alive" | "drop_begin" | "drop_signalled" | "drop_ended" | "drop_nulled"
    inner,           \* Session.inner: "handle" | "null"
    shutdownSet,     \* state of the shutdown event
    shutdownEvt,     \* SafeEvent handle: "none" | "open" | "closed"
    endCalls,        \* calls of WintunEndSession on the Session's ring
    dropShutdown,    \* what Drop's shutdown() returned: "none" | "Ok" | "OsError"
    sessionsCreated, \* Session objects returned by start_session
    sessionsEnded,   \* Session objects whose ring was ended
    \* driver ring
    ringOpen,        \* a ring started by WintunStartSession and not ended
    rxQueue,         \* sizes of the packets queued for receive
    readEvent,       \* state of the auto-reset read event
    rxOutstanding,   \* buffers returned by WintunReceivePacket and not yet given
                     \* back by WintunReleaseReceivePacket
    \* the caller of start_session and the threads it shares the Session with
    owner,           \* the caller still holds the Arc<Session> it was returned
    ref,             \* thread holds a clone of the Arc<Session>
    pc,              \* "idle" | "try" | "wait" | "blocked" | "woken" (released waiter)
    api,             \* "receive_blocking" | "recv"
    tries,           \* iterations done of the for _ in 0..5 loop
    buf,             \* length of the destination buffer of recv
    wres,            \* WaitForMultipleObjects result of a released waiter
    pkt,             \* Packet held: "none" | "ReceivePacket" | "SendPacketPending"
    result,          \* what the last receive_blocking / recv returned
    \* AsyncSession (async_session.rs:26)
    aref,            \* adapter exists and holds an Arc<Session>
    read_state,      \* "Idle" | "Waiting" (Some(task)) | "WaitingNone" | "Closed"
    task,            \* per slot: "none" | "spawned" | "blocked" | "dangling" |
                     \* "Shutdown" | "Ready" | "panic" | "taken" (its output
                     \* was delivered) | "poisoned" (a poll panicked under the lock)
    apc,             \* "idle" | "poll" | "pending" | "recv" | "recv_await"
    abuf,            \* length of the destination buffer of the read
    aresult,         \* what the last poll_read / recv / poll_close returned
    \* Adapter::start_session (adapter.rs:174)
    startResult,     \* what the last start_session returned
    ringCapacity,    \* capacity WintunStartSession was last called with; 0 before
    \* send side of the driver ring
    txRing,          \* packets allocated and not yet handed to the peer, in
                     \* allocation order
    txInput,         \* per allocation: the bytes the caller meant to send
    txSubmitted,     \* ids in the order WintunSendPacket was called
    txDelivered,     \* packets in the order the peer observed them
    pid,             \* id of the send Packet a thread holds, 0 when none
    sres,            \* what the last allocate_send_packet / send / poll_write returned
    \* the caller's destination buffer
    rd,              \* per thread: bytes the last try_recv / recv copied and
                     \* the length it returned
    ard,             \* the same for the last poll_read / recv of an AsyncSession
    \* a second Session, started on another adapter
    other,           \* "none" | "alive" | "corrupt" (its ring was damaged) | "ended"
    otherCalls,      \* per WintunSendPacket call made with its handle: the
                     \* Session the buffer was allocated from, "other" | "this"
    \* ReadState::Waiting(Some(Arc<Mutex<Task>>))
    tslot            \* per AsyncSession: the Task its Waiting state points at

adapterVars == <<adapterRef, adapter, closeCalls, adapterDrop>>
sessVars == <<sessPc, inner, shutdownSet, shutdownEvt, endCalls, dropShutdown,
              sessionsCreated, sessionsEnded>>
ringVars == <<ringOpen, rxQueue, readEvent, rxOutstanding>>
threadVars == <<owner, ref, pc, api, tries, buf, wres, pkt, result>>
asyncVars == <<aref, read_state, task, apc, abuf, aresult>>
startVars == <<startResult, ringCapacity>>
sendVars == <<txRing, txInput, txSubmitted, txDelivered, pid, sres>>
copyVars == <<rd, ard>>
crossVars == <<other, otherCalls>>
cloneVars == <<tslot>>
vars == <<adapterVars, sessVars, ringVars, threadVars, asyncVars, startVars, sendVars,
          copyVars, crossVars, cloneVars>>

\* What a write call returned: Ok(n), an error, or nothing yet.
NoResult == [kind |-> "none", n |-> 0]
\* Nothing was copied into the caller's buffer and no length was returned.
NoRead == [copied |-> 0, len |-> 0]

Init ==
    /\ adapterRef = TRUE
    /\ adapter = "open"
    /\ closeCalls = 0
    /\ adapterDrop = "none"
    /\ sessPc = "none"
    /\ inner = "null"
    /\ shutdownSet = FALSE
    /\ shutdownEvt = "none"
    /\ endCalls = 0
    /\ dropShutdown = "none"
    /\ sessionsCreated = 0
    /\ sessionsEnded = 0
    /\ ringOpen = FALSE
    /\ rxQueue = <<>>
    /\ readEvent = FALSE
    /\ rxOutstanding = 0
    /\ owner = FALSE
    /\ ref = [t \in Threads |-> FALSE]
    /\ pc = [t \in Threads |-> "idle"]
    /\ api = [t \in Threads |-> "receive_blocking"]
    /\ tries = [t \in Threads |-> 0]
    /\ buf = [t \in Threads |-> 1]
    /\ wres = [t \in Threads |-> WAIT_OBJECT_0]
    /\ pkt = [t \in Threads |-> "none"]
    /\ result = [t \in Threads |-> "none"]
    /\ aref = [a \in Adapters |-> FALSE]
    /\ read_state = [a \in Adapters |-> "Idle"]
    /\ task = [s \in Slots |-> "none"]
    /\ apc = [a \in Adapters |-> "idle"]
    /\ abuf = [a \in Adapters |-> 1]
    /\ aresult = [a \in Adapters |-> "none"]
    /\ startResult = "none"
    /\ ringCapacity = 0
    /\ txRing = <<>>
    /\ txInput = <<>>
    /\ txSubmitted = <<>>
    /\ txDelivered = <<>>
    /\ pid = [t \in Threads |-> 0]
    /\ sres = NoResult
    /\ rd = [t \in Threads |-> NoRead]
    /\ ard = [a \in Adapters |-> NoRead]
    /\ other = "none"
    /\ otherCalls = <<>>
    /\ tslot = [a \in Adapters |-> a]

\* ------------------------------------------------------------------------
\* Events and WaitForMultipleObjects (the OS)
\* ------------------------------------------------------------------------

\* SafeEvent::new(true, false): the shutdown event is manual-reset, initially unset.
auto_reset == FALSE
manual_reset == TRUE
initial_state == FALSE

\* wait_for_read: let handles = [shutdown_event.0, read_event.0];
AsyncHandles == <<"shutdown", "read">>
\* a wait on the read event alone
SyncHandlesReadOnly == <<"read">>
\* wait_read: let handles = [self.get_read_wait_event()?.0, self.shutdown_event.0 .0];
\* (the match in wait_read takes index 0 for data and index 1 for shutdown)
SyncHandlesSwapped == <<"shutdown", "read">>
SyncHandles == <<"read", "shutdown">>

Signalled(e) == IF e = "read" THEN readEvent ELSE shutdownSet
Satisfied(h) == \E i \in 1..Len(h) : Signalled(h[i])
\* bWaitAll = FALSE: the smallest index of a signalled handle
FirstSignalled(h) ==
    CHOOSE i \in 1..Len(h) : Signalled(h[i]) /\ \A j \in 1..(i - 1) : ~Signalled(h[j])
IndexOf(h, e) == CHOOSE i \in 1..Len(h) : h[i] = e
IsManual(e) == e = "shutdown" /\ manual_reset

\* A wait that finds a handle signalled returns at once; an auto-reset event
\* is reset by the wait it satisfies.
ReadEventAfterWait(h) ==
    IF Satisfied(h) /\ h[FirstSignalled(h)] = "read" THEN FALSE ELSE readEvent
ShutdownAfterWait(h) ==
    IF Satisfied(h) /\ h[FirstSignalled(h)] = "shutdown" /\ ~IsManual("shutdown")
    THEN FALSE ELSE shutdownSet

\* every wake-up of the wait taken for the shutdown
wait_read_any_wake_is_shutdown(r) ==
    CASE r = WAIT_FAILED -> "OsError"
      [] r \in {WAIT_OBJECT_0, WAIT_OBJECT_1} -> "ShuttingDown"
      [] OTHER -> "panic"
\* fn wait_read: the match on the result of WaitForMultipleObjects
wait_read(r) ==
    CASE r = WAIT_FAILED -> "OsError"
      [] r = WAIT_OBJECT_0 -> "Ok"
      [] r = WAIT_OBJECT_1 -> "ShuttingDown"
      [] OTHER -> "panic"

\* fn wait_for_read: the match on the result of WaitForMultipleObjects
wait_for_read(r) ==
    CASE r \in {WAIT_OBJECT_0, WAIT_ABANDONED_0} -> "Shutdown"
      [] r = WAIT_OBJECT_1 -> "Ready"
      [] OTHER -> "panic"

BlockedThreads == {t \in Threads : pc[t] = "blocked"}
BlockedSlots == {s \in Slots : task[s] = "blocked"}

PcAfter(T) == [t \in Threads |-> IF t \in T THEN "woken" ELSE pc[t]]
WresAfter(T, e) ==
    [t \in Threads |-> IF t \in T THEN WAIT_OBJECT_0 + IndexOf(SyncHandles, e) - 1
                       ELSE wres[t]]
TaskAfter(S, e) ==
    [s \in Slots |-> IF s \in S
                     THEN wait_for_read(WAIT_OBJECT_0 + IndexOf(AsyncHandles, e) - 1)
                     ELSE task[s]]

\* Signalling event e releases the waiters blocked on it, each with the index
\* e has among its handles: all of them for a manual-reset event, one of them
\* for an auto-reset event.
Wake(e) ==
    IF IsManual(e)
    THEN /\ pc' = PcAfter(BlockedThreads)
         /\ wres' = WresAfter(BlockedThreads, e)
         /\ task' = TaskAfter(BlockedSlots, e)
    ELSE \/ /\ BlockedThreads = {} /\ BlockedSlots = {}
            /\ UNCHANGED <<pc, wres, task>>
         \/ \E t \in BlockedThreads :
               /\ pc' = PcAfter({t})
               /\ wres' = WresAfter({t}, e)
               /\ task' = task
         \/ \E s \in BlockedSlots :
               /\ task' = TaskAfter({s}, e)
               /\ UNCHANGED <<pc, wres>>
\* The event stays signalled unless it is auto-reset and released a waiter.
EventAfterSet(e, old) ==
    IF IsManual(e) \/ (BlockedThreads = {} /\ BlockedSlots = {}) THEN TRUE ELSE old

\* SafeEvent::set_event on the shutdown event; ok is what SetEvent returned.
set_event(ok) ==
    IF ok
    THEN /\ Wake("shutdown")
         /\ shutdownSet' = EventAfterSet("shutdown", shutdownSet)
    ELSE UNCHANGED <<pc, wres, task, shutdownSet>>

\* What Session::shutdown leaves alone: the session handle, the ring and
\* what is queued in it either way.
ShutdownFrame ==
    UNCHANGED <<inner, endCalls, sessionsEnded, ringVars,
                txRing, txInput, txSubmitted, txDelivered>>

\* Session::shutdown: self.shutdown_event.set_event()?; Ok(())
shutdown_without_signal(ok) == UNCHANGED <<pc, wres, task, shutdownSet>> /\ ShutdownFrame
\* a shutdown that also ended the session, as Drop for Session does after it
shutdown_and_end(ok) ==
    /\ set_event(ok)
    /\ endCalls' = endCalls + 1
    /\ ringOpen' = FALSE
    /\ rxQueue' = <<>>
    /\ txRing' = <<>>
    /\ UNCHANGED <<inner, sessionsEnded, readEvent, rxOutstanding,
                   txInput, txSubmitted, txDelivered>>
shutdown(ok) == set_event(ok) /\ ShutdownFrame
ShutdownResult(ok) == IF ok THEN "Ok" ELSE "OsError"

\* ------------------------------------------------------------------------
\* Reference counts
\* ------------------------------------------------------------------------

\* Strong count of Arc<Session>: the caller's reference, the threads' clones,
\* the Packets (session: self.clone()) and the AsyncSessions.
SessionStrongNoPackets(o, r, p, ar) ==
    (IF o THEN 1 ELSE 0) + Cardinality({t \in Threads : r[t]})
    + Cardinality({a \in Adapters : ar[a]})
SessionStrong(o, r, p, ar) ==
    (IF o THEN 1 ELSE 0) + Cardinality({t \in Threads : r[t]})
    + Cardinality({t \in Threads : p[t] # "none"})
    + Cardinality({a \in Adapters : ar[a]})

\* Whoever releases the last reference runs Drop for Session.
SessPcAfter(o, r, p, ar) ==
    IF SessionStrong(o, r, p, ar) = 0 THEN "drop_begin" ELSE sessPc

\* Strong count of Arc<Adapter>: the user's reference and the Session's
\* adapter field.
AdapterStrongNoSession(user) == IF user THEN 1 ELSE 0
AdapterStrong(user) ==
    (IF user THEN 1 ELSE 0) + (IF sessPc # "none" THEN 1 ELSE 0)

\* ------------------------------------------------------------------------
\* Adapter
\* ------------------------------------------------------------------------

\* Drop for Adapter: get_name, WintunCloseAdapter, null the handle, registry
\* cleanup when the name was found; neither failure is returned.
AdapterDropBody(nameOk, regOk) ==
    /\ closeCalls' = closeCalls + 1
    /\ adapter' = "null"
    /\ adapterDrop' = IF ~nameOk THEN "name_failed"
                      ELSE IF ~regOk THEN "reg_failed" ELSE "clean"

\* The user releases its Arc<Adapter> (Adapter::delete or scope end).
DropAdapterRef ==
    /\ adapterRef
    /\ adapterRef' = FALSE
    /\ IF AdapterStrong(adapterRef) - 1 = 0
       THEN \E nameOk \in BOOLEAN, regOk \in BOOLEAN : AdapterDropBody(nameOk, regOk)
       ELSE UNCHANGED <<adapter, closeCalls, adapterDrop>>
    /\ UNCHANGED <<sessVars, ringVars, threadVars, asyncVars>>
    /\ UNCHANGED <<startVars, sendVars>>
    /\ UNCHANGED copyVars
    /\ UNCHANGED crossVars
    /\ UNCHANGED cloneVars

\* Adapter::validate_capacity: the range is checked first, then the power of
\* two (u32::is_power_of_two is false for 0; the capacities of the model lie
\* below 2^31).
is_power_of_two(n) == n >= 1 /\ \E k \in 0..30 : n = 2 ^ k

\* the two checks in the other order
validate_capacity_power_first(capacity) ==
    IF ~is_power_of_two(capacity) THEN "CapacityNotPowerOfTwo"
    ELSE IF capacity \notin MIN_RING_CAPACITY..MAX_RING_CAPACITY THEN "CapacityOutOfRange"
    ELSE "Ok"
\* MIN_RING_CAPACITY..MAX_RING_CAPACITY in place of ..=
validate_capacity_exclusive(capacity) ==
    IF capacity \notin MIN_RING_CAPACITY..(MAX_RING_CAPACITY - 1) THEN "CapacityOutOfRange"
    ELSE IF ~is_power_of_two(capacity) THEN "CapacityNotPowerOfTwo"
    ELSE "Ok"
validate_capacity(capacity) ==
    IF capacity \notin MIN_RING_CAPACITY..MAX_RING_CAPACITY THEN "CapacityOutOfRange"
    ELSE IF ~is_power_of_two(capacity) THEN "CapacityNotPowerOfTwo"
    ELSE "Ok"

\* Self::validate_capacity(capacity)?: start_session returns the error before
\* it touches the driver.
StartSessionInvalid(capacity) ==
    /\ adapterRef
    /\ validate_capacity(capacity) # "Ok"
    /\ startResult' = validate_capacity(capacity)
    /\ UNCHANGED ringCapacity
    /\ UNCHANGED <<adapterVars, sessVars, ringVars, threadVars, asyncVars, sendVars>>
    /\ UNCHANGED copyVars
    /\ UNCHANGED crossVars
    /\ UNCHANGED cloneVars

\* WintunStartSession returns null (the adapter already has a ring started):
\* start_session returns the text of the driver's log.
StartSessionRejected(capacity) ==
    /\ adapterRef
    /\ validate_capacity(capacity) = "Ok"
    /\ ringOpen
    /\ startResult' = "DriverRejected"
    /\ ringCapacity' = capacity
    /\ UNCHANGED <<adapterVars, sessVars, ringVars, threadVars, asyncVars, sendVars>>
    /\ UNCHANGED copyVars
    /\ UNCHANGED crossVars
    /\ UNCHANGED cloneVars

\* Adapter::start_session with a valid capacity when the driver starts the
\* ring.  Then SafeEvent::new either fails (the function returns the error
\* and the ring stays started) or the Session is returned to the caller, who
\* gives every thread a clone of the Arc.
StartSession(capacity) ==
    /\ adapterRef
    /\ validate_capacity(capacity) = "Ok"
    /\ sessPc = "none"
    /\ ~ringOpen
    /\ sessionsCreated < MaxSessions
    /\ ringCapacity' = capacity
    /\ \/ /\ ringOpen' = TRUE
          /\ startResult' = "OsError"
          /\ UNCHANGED <<rxQueue, readEvent, rxOutstanding>>
          /\ UNCHANGED <<sessVars, threadVars, asyncVars, sendVars, rd>>
       \/ /\ ringOpen' = TRUE
          /\ startResult' = "Session"
          /\ rxQueue' = <<>>
          /\ readEvent' = FALSE
          /\ rxOutstanding' = 0
          /\ sessPc' = "alive"
          /\ inner' = "handle"
          /\ shutdownSet' = initial_state
          /\ shutdownEvt' = "open"
          /\ endCalls' = 0
          /\ dropShutdown' = "none"
          /\ sessionsCreated' = sessionsCreated + 1
          /\ owner' = TRUE
          /\ ref' = [t \in Threads |-> TRUE]
          /\ result' = [t \in Threads |-> "none"]
          /\ txRing' = <<>>
          /\ txInput' = <<>>
          /\ txSubmitted' = <<>>
          /\ txDelivered' = <<>>
          /\ sres' = NoResult
          /\ rd' = [t \in Threads |-> NoRead]
          /\ UNCHANGED <<sessionsEnded, pc, api, tries, buf, wres, pkt, pid, asyncVars>>
    /\ UNCHANGED adapterVars
    /\ UNCHANGED ard
    /\ UNCHANGED crossVars
    /\ UNCHANGED cloneVars

\* ------------------------------------------------------------------------
\* Drop for Session
\* ------------------------------------------------------------------------

\* if let Err(e) = self.shutdown() { log::trace!(..) }: the error is logged
\* and drop goes on; written with ? it would leave drop at once.
AfterDropShutdownPropagated(r) == IF r = "Ok" THEN "drop_signalled" ELSE "drop_nulled"
AfterDropShutdown(r) == "drop_signalled"

DropShutdown ==
    /\ sessPc = "drop_begin"
    /\ \E ok \in BOOLEAN :
          /\ shutdown(ok)
          /\ dropShutdown' = ShutdownResult(ok)
          /\ sessPc' = AfterDropShutdown(ShutdownResult(ok))
    /\ UNCHANGED <<shutdownEvt, sessionsCreated>>
    /\ UNCHANGED adapterVars
    /\ UNCHANGED <<owner, ref, api, tries, buf, pkt, result>>
    /\ UNCHANGED <<aref, read_state, apc, abuf, aresult>>
    /\ UNCHANGED <<startVars, pid, sres>>
    /\ UNCHANGED copyVars
    /\ UNCHANGED crossVars
    /\ UNCHANGED cloneVars

\* The closures still on the pool hold the raw handles of the Session: from
\* WintunEndSession on they wait on (or are about to wait on) a closed handle.
Dangling ==
    [s \in Slots |-> IF task[s] \in {"spawned", "blocked"} THEN "dangling" ELSE task[s]]

\* unsafe { self.get_wintun().WintunEndSession(self.inner.0) };
DropEndSession ==
    /\ sessPc = "drop_signalled"
    /\ endCalls' = endCalls + 1
    /\ sessionsEnded' = sessionsEnded + 1
    /\ ringOpen' = FALSE
    /\ rxQueue' = <<>>
    /\ readEvent' = FALSE
    /\ sessPc' = "drop_ended"
    /\ task' = Dangling
    /\ txRing' = <<>>
    /\ txInput' = <<>>
    /\ txSubmitted' = <<>>
    /\ txDelivered' = <<>>
    /\ UNCHANGED <<pid, sres>>
    /\ UNCHANGED <<inner, shutdownSet, shutdownEvt, dropShutdown, sessionsCreated>>
    /\ UNCHANGED rxOutstanding
    /\ UNCHANGED <<aref, read_state, apc, abuf, aresult>>
    /\ UNCHANGED <<adapterVars, threadVars>>
    /\ UNCHANGED startVars
    /\ UNCHANGED copyVars
    /\ UNCHANGED crossVars
    /\ UNCHANGED cloneVars

\* self.inner.0 = ptr::null_mut();
DropNull ==
    /\ sessPc = "drop_ended"
    /\ inner' = "null"
    /\ sessPc' = "drop_nulled"
    /\ UNCHANGED <<shutdownSet, shutdownEvt, endCalls, dropShutdown,
                   sessionsCreated, sessionsEnded>>
    /\ UNCHANGED <<adapterVars, ringVars, threadVars, asyncVars>>
    /\ UNCHANGED <<startVars, sendVars>>
    /\ UNCHANGED copyVars
    /\ UNCHANGED crossVars
    /\ UNCHANGED cloneVars

\* The fields are dropped after Drop::drop: the SafeEvent closes its handle
\* (the event and the Session are gone), the Arc<Adapter> is released.
DropFields ==
    /\ sessPc = "drop_nulled"
    /\ shutdownEvt' = "closed"
    /\ shutdownSet' = FALSE
    /\ dropShutdown' = "none"
    /\ endCalls' = 0
    /\ sessPc' = "none"
    /\ IF AdapterStrong(adapterRef) - 1 = 0
       THEN \E nameOk \in BOOLEAN, regOk \in BOOLEAN : AdapterDropBody(nameOk, regOk)
       ELSE UNCHANGED <<adapter, closeCalls, adapterDrop>>
    /\ UNCHANGED adapterRef
    /\ UNCHANGED <<inner, sessionsCreated, sessionsEnded>>
    /\ UNCHANGED <<ringVars, threadVars, asyncVars>>
    /\ UNCHANGED <<startVars, sendVars>>
    /\ UNCHANGED copyVars
    /\ UNCHANGED crossVars
    /\ UNCHANGED cloneVars

\* ------------------------------------------------------------------------
\* The driver's receive ring
\* ------------------------------------------------------------------------

\* What WintunReceivePacket can answer: a buffer when a packet is queued,
\* ERROR_NO_MORE_ITEMS when none is, or another error code.
RecvOutcomes ==
    (IF rxQueue # <<>> THEN {"packet"} ELSE {"ERROR_NO_MORE_ITEMS"}) \cup {"ERROR_OTHER"}

HeadSize == IF rxQueue # <<>> THEN Head(rxQueue) ELSE 0

\* The driver queues a packet while the ring has room and signals the read
\* event, which releases one waiter or stays set.
DriverDeliver ==
    /\ ringOpen
    /\ Len(rxQueue) + rxOutstanding < MaxRing
    /\ \E size \in Sizes : rxQueue' = Append(rxQueue, size)
    /\ Wake("read")
    /\ readEvent' = EventAfterSet("read", readEvent)
    /\ UNCHANGED <<ringOpen, rxOutstanding>>
    /\ UNCHANGED <<adapterVars, sessVars>>
    /\ UNCHANGED <<owner, ref, api, tries, buf, pkt, result>>
    /\ UNCHANGED <<aref, read_state, apc, abuf, aresult>>
    /\ UNCHANGED <<startVars, sendVars>>
    /\ UNCHANGED copyVars
    /\ UNCHANGED crossVars
    /\ UNCHANGED cloneVars

\* WintunReceivePacket answered o; released buffers were given back by
\* WintunReleaseReceivePacket within the same call.
RingAfterReceive(o, released) ==
    /\ rxQueue' = IF o = "packet" THEN Tail(rxQueue) ELSE rxQueue
    /\ rxOutstanding' = (IF o = "packet" THEN rxOutstanding + 1 ELSE rxOutstanding) - released

\* every null pointer taken for "no packet"
try_receive_null_is_none(o) == IF o = "packet" THEN "Some" ELSE "None"
\* Session::try_receive: the match on the pointer and GetLastError
try_receive(o) ==
    CASE o = "packet" -> "Some"
      [] o = "ERROR_NO_MORE_ITEMS" -> "None"
      [] OTHER -> "OsError"

\* Session::try_recv into a buffer of n bytes
try_recv(o, size, n) ==
    CASE o = "packet" -> IF size > n THEN "InvalidInput" ELSE "Ok"
      [] o = "ERROR_NO_MORE_ITEMS" -> "WouldBlock"
      [] OTHER -> "OsError"

\* Drop for Packet (packet.rs, described in the specification): a
\* ReceivePacket gives its buffer back, the send kinds release nothing.
PacketDropReleased(kind) == IF kind = "ReceivePacket" THEN 1 ELSE 0

\* Session::try_recv, the copy: ptr::copy_nonoverlapping(ptr, buf, size); Ok(size)
try_recv_copy(o, size, n) ==
    IF try_recv(o, size, n) = "Ok" THEN [copied |-> size, len |-> size] ELSE NoRead

\* ------------------------------------------------------------------------
\* Threads calling the Session
\* ------------------------------------------------------------------------

CanCall(t) == ref[t] /\ pc[t] = "idle"

\* A call returned: its locals are gone.
Return(t, r) ==
    /\ pc' = [pc EXCEPT ![t] = "idle"]
    /\ result' = [result EXCEPT ![t] = r]
    /\ api' = [api EXCEPT ![t] = "receive_blocking"]
    /\ buf' = [buf EXCEPT ![t] = 1]
    /\ tries' = [tries EXCEPT ![t] = 0]
    /\ wres' = [wres EXCEPT ![t] = WAIT_OBJECT_0]

\* Session::try_receive called directly; the thread keeps the Packet.
TryReceive(t) ==
    /\ CanCall(t)
    /\ pkt[t] = "none"
    /\ \E o \in RecvOutcomes :
          /\ RingAfterReceive(o, 0)
          /\ pkt' = [pkt EXCEPT ![t] = IF try_receive(o) = "Some" THEN "ReceivePacket" ELSE @]
          /\ result' = [result EXCEPT ![t] = try_receive(o)]
    /\ rd' = [rd EXCEPT ![t] = NoRead]
    /\ UNCHANGED <<ringOpen, readEvent>>
    /\ UNCHANGED <<owner, ref, pc, api, tries, buf, wres>>
    /\ UNCHANGED <<adapterVars, sessVars, asyncVars>>
    /\ UNCHANGED <<startVars, sendVars>>
    /\ UNCHANGED ard
    /\ UNCHANGED crossVars
    /\ UNCHANGED cloneVars

\* Session::try_recv called directly with a buffer of n bytes: the ring
\* buffer is copied from (or refused) and the call returns.
TryRecv(t, n) ==
    /\ CanCall(t)
    /\ \E o \in RecvOutcomes :
          /\ RingAfterReceive(o, 0)
          /\ result' = [result EXCEPT ![t] = try_recv(o, HeadSize, n)]
          /\ rd' = [rd EXCEPT ![t] = try_recv_copy(o, HeadSize, n)]
    /\ UNCHANGED <<ringOpen, readEvent>>
    /\ UNCHANGED <<owner, ref, pc, api, tries, buf, wres, pkt>>
    /\ UNCHANGED <<adapterVars, sessVars, asyncVars>>
    /\ UNCHANGED <<startVars, sendVars>>
    /\ UNCHANGED ard
    /\ UNCHANGED crossVars
    /\ UNCHANGED cloneVars

BeginReceiveBlocking(t) ==
    /\ CanCall(t)
    /\ pkt[t] = "none"
    /\ pc' = [pc EXCEPT ![t] = "try"]
    /\ api' = [api EXCEPT ![t] = "receive_blocking"]
    /\ tries' = [tries EXCEPT ![t] = 0]
    /\ result' = [result EXCEPT ![t] = "none"]
    /\ rd' = [rd EXCEPT ![t] = NoRead]
    /\ UNCHANGED <<owner, ref, buf, wres, pkt>>
    /\ UNCHANGED <<adapterVars, sessVars, ringVars, asyncVars>>
    /\ UNCHANGED <<startVars, sendVars>>
    /\ UNCHANGED ard
    /\ UNCHANGED crossVars
    /\ UNCHANGED cloneVars

BeginRecv(t, n) ==
    /\ CanCall(t)
    /\ pc' = [pc EXCEPT ![t] = "try"]
    /\ api' = [api EXCEPT ![t] = "recv"]
    /\ buf' = [buf EXCEPT ![t] = n]
    /\ tries' = [tries EXCEPT ![t] = 0]
    /\ result' = [result EXCEPT ![t] = "none"]
    /\ rd' = [rd EXCEPT ![t] = NoRead]
    /\ UNCHANGED <<owner, ref, wres, pkt>>
    /\ UNCHANGED <<adapterVars, sessVars, ringVars, asyncVars>>
    /\ UNCHANGED <<startVars, sendVars>>
    /\ UNCHANGED ard
    /\ UNCHANGED crossVars
    /\ UNCHANGED cloneVars

\* Ok(None) / WouldBlock: continue the for _ in 0..5 loop, then wait_read.
SpinAgain(t) ==
    /\ tries' = [tries EXCEPT ![t] = IF @ + 1 = SpinTries THEN 0 ELSE @ + 1]
    /\ pc' = [pc EXCEPT ![t] = IF tries[t] + 1 = SpinTries THEN "wait" ELSE "try"]
    /\ UNCHANGED <<api, buf, wres, result>>

\* One iteration of the loop of receive_blocking.
SpinReceiveBlocking(t) ==
    /\ pc[t] = "try" /\ api[t] = "receive_blocking"
    /\ \E o \in RecvOutcomes :
          /\ RingAfterReceive(o, 0)
          /\ CASE try_receive(o) = "Some" ->
                    /\ Return(t, "Packet")
                    /\ pkt' = [pkt EXCEPT ![t] = "ReceivePacket"]
               [] try_receive(o) = "None" -> SpinAgain(t) /\ UNCHANGED pkt
               [] OTHER -> Return(t, "OsError") /\ UNCHANGED pkt
    /\ UNCHANGED <<ringOpen, readEvent, owner, ref>>
    /\ UNCHANGED <<adapterVars, sessVars, asyncVars>>
    /\ UNCHANGED <<startVars, sendVars>>
    /\ UNCHANGED copyVars
    /\ UNCHANGED crossVars
    /\ UNCHANGED cloneVars

\* One iteration of the loop of Session::recv.
SpinRecv(t) ==
    /\ pc[t] = "try" /\ api[t] = "recv"
    /\ \E o \in RecvOutcomes :
          /\ RingAfterReceive(o, 0)
          /\ IF try_recv(o, HeadSize, buf[t]) = "WouldBlock"
             THEN SpinAgain(t)
             ELSE Return(t, try_recv(o, HeadSize, buf[t]))
          /\ rd' = [rd EXCEPT ![t] = try_recv_copy(o, HeadSize, buf[t])]
    /\ UNCHANGED <<ringOpen, readEvent, owner, ref, pkt>>
    /\ UNCHANGED <<adapterVars, sessVars, asyncVars>>
    /\ UNCHANGED <<startVars, sendVars>>
    /\ UNCHANGED ard
    /\ UNCHANGED crossVars
    /\ UNCHANGED cloneVars

\* wait_read returned r; self.wait_read()? either goes round the loop again
\* or returns the error from receive_blocking / recv.
AfterWait(t, r) ==
    IF wait_read(r) = "Ok"
    THEN /\ pc' = [pc EXCEPT ![t] = "try"]
         /\ tries' = [tries EXCEPT ![t] = 0]
         /\ wres' = [wres EXCEPT ![t] = WAIT_OBJECT_0]
         /\ UNCHANGED <<api, buf, result>>
    ELSE Return(t, wait_read(r))

\* wait_read calls WaitForMultipleObjects: it returns at once with the first
\* signalled handle, or the thread blocks.
WaitEnter(t) ==
    /\ pc[t] = "wait"
    /\ IF Satisfied(SyncHandles)
       THEN AfterWait(t, WAIT_OBJECT_0 + FirstSignalled(SyncHandles) - 1)
       ELSE /\ pc' = [pc EXCEPT ![t] = "blocked"]
            /\ UNCHANGED <<api, tries, buf, wres, result>>
    /\ readEvent' = ReadEventAfterWait(SyncHandles)
    /\ shutdownSet' = ShutdownAfterWait(SyncHandles)
    /\ UNCHANGED <<ringOpen, rxQueue, rxOutstanding>>
    /\ UNCHANGED <<owner, ref, pkt>>
    /\ UNCHANGED <<sessPc, inner, shutdownEvt, endCalls, dropShutdown,
                   sessionsCreated, sessionsEnded>>
    /\ UNCHANGED <<adapterVars, asyncVars>>
    /\ UNCHANGED <<startVars, sendVars>>
    /\ UNCHANGED copyVars
    /\ UNCHANGED crossVars
    /\ UNCHANGED cloneVars

\* A released waiter runs again: WaitForMultipleObjects returns the index of
\* the event that released it.
WaitReturn(t) ==
    /\ pc[t] = "woken"
    /\ AfterWait(t, wres[t])
    /\ UNCHANGED <<owner, ref, pkt>>
    /\ UNCHANGED <<adapterVars, sessVars, ringVars, asyncVars>>
    /\ UNCHANGED <<startVars, sendVars>>
    /\ UNCHANGED copyVars
    /\ UNCHANGED crossVars
    /\ UNCHANGED cloneVars

\* Session::shutdown called by the caller of start_session or by a thread.
Shutdown ==
    /\ owner \/ \E t \in Threads : CanCall(t)
    /\ \E ok \in BOOLEAN : shutdown(ok)
    /\ UNCHANGED <<owner, ref, api, tries, buf, pkt, result>>
    /\ UNCHANGED <<sessPc, shutdownEvt, dropShutdown, sessionsCreated>>
    /\ UNCHANGED <<aref, read_state, apc, abuf, aresult>>
    /\ UNCHANGED adapterVars
    /\ UNCHANGED <<startVars, pid, sres>>
    /\ UNCHANGED copyVars
    /\ UNCHANGED crossVars
    /\ UNCHANGED cloneVars

\* ---- the send side of the ring (WintunAllocateSendPacket, WintunSendPacket)

\* buf.len() as _ where a u16 is expected (async_session.rs:92)
as_u16(n) == n % (U16_MAX + 1)

\* What WintunAllocateSendPacket answers to a request of size bytes: a
\* buffer at the tail of the ring, or null with the last error set.
WintunAllocateSendPacket(size) ==
    IF size > U16_MAX THEN "ERROR_INVALID_PARAMETER"
    ELSE IF Len(txRing) >= MaxSendRing THEN "ERROR_BUFFER_OVERFLOW"
    ELSE "packet"

\* util::get_last_error: Err for every code but 0, Ok("No error") for 0.
get_last_error(code) == IF code = "ERROR_SUCCESS" THEN "NoError" ELSE "OsError"

\* The id of the next allocation of this ring.
NextId == Len(txInput) + 1

\* The buffer the driver hands out: len bytes at the tail of the ring, of
\* which the first `filled` were written from the bytes named `tag`.
Allocated(len, tag, filled) ==
    [id |-> NextId, len |-> len, tag |-> tag, filled |-> filled, sent |-> FALSE]

\* Were the order of WintunSendPacket calls the order of delivery, the
\* buffer sent would move to the place behind the buffers sent before it.
MarkSentInSendOrder(ring, id) ==
    LET sent == SelectSeq(ring, LAMBDA e : e.sent)
        mine == SelectSeq(ring, LAMBDA e : e.id = id)
        rest == SelectSeq(ring, LAMBDA e : ~e.sent /\ e.id # id)
    IN sent \o [i \in 1..Len(mine) |-> [mine[i] EXCEPT !.sent = TRUE]] \o rest
\* WintunSendPacket on the buffer with this id: the buffer is marked ready
\* where it lies in the ring.
MarkSent(ring, id) ==
    [i \in 1..Len(ring) |-> IF ring[i].id = id THEN [ring[i] EXCEPT !.sent = TRUE] ELSE ring[i]]

\* Were a buffer handed over as soon as it is sent, wherever it lies.
ReadyAnywhere(ring) == SelectSeq(ring, LAMBDA e : e.sent)
\* The driver takes buffers from the head of the ring, in the order they
\* were allocated, and stops at the first buffer that was not sent.
RECURSIVE ReadyPrefix(_)
ReadyPrefix(ring) ==
    IF ring # <<>> /\ Head(ring).sent
    THEN <<Head(ring)>> \o ReadyPrefix(Tail(ring))
    ELSE <<>>

\* The ring and the peer's view after WintunSendPacket on the buffer id.
WintunSendPacket(ring, id) ==
    LET marked == MarkSent(ring, id)
        ready == ReadyPrefix(marked)
    IN /\ txRing' = SubSeq(marked, Len(ready) + 1, Len(marked))
       /\ txDelivered' = txDelivered \o ready
       /\ txSubmitted' = Append(txSubmitted, id)

\* Session::allocate_send_packet(size): a Packet of kind SendPacketPending
\* over the driver's buffer, or the error; the caller then writes its bytes
\* through the Packet.
AllocateSendPacket(t, size, tag) ==
    /\ CanCall(t)
    /\ pkt[t] = "none"
    /\ Len(txInput) < MaxSend
    /\ IF WintunAllocateSendPacket(size) = "packet"
       THEN /\ txRing' = Append(txRing, Allocated(size, tag, size))
            /\ txInput' = Append(txInput, [len |-> size, tag |-> tag])
            /\ pkt' = [pkt EXCEPT ![t] = "SendPacketPending"]
            /\ pid' = [pid EXCEPT ![t] = NextId]
            /\ sres' = [kind |-> "Packet", n |-> size]
       ELSE /\ sres' = [kind |-> get_last_error(WintunAllocateSendPacket(size)), n |-> 0]
            /\ UNCHANGED <<txRing, txInput, pkt, pid>>
    /\ UNCHANGED <<txSubmitted, txDelivered>>
    /\ UNCHANGED <<owner, ref, pc, api, tries, buf, wres, result>>
    /\ UNCHANGED <<adapterVars, sessVars, ringVars, asyncVars>>
    /\ UNCHANGED startVars
    /\ UNCHANGED copyVars
    /\ UNCHANGED crossVars
    /\ UNCHANGED cloneVars

\* an assertion that lets every kind through
assert_any_kind(kind) == TRUE
\* assert!(matches!(packet.kind, packet::Kind::SendPacketPending))
assert_pending(kind) == kind = "SendPacketPending"

\* Session::send_packet(packet): the assertion, then WintunSendPacket on the
\* Packet's buffer; the Packet is marked SendPacketSent and dropped at the
\* end of the function.  When the assertion fails the call panics before
\* the driver is touched and the Packet is dropped in the unwinding as the
\* kind it had.
SendPacket(t) ==
    /\ CanCall(t)
    /\ pkt[t] # "none"
    /\ IF assert_pending(pkt[t])
       THEN /\ WintunSendPacket(txRing, pid[t])
            /\ rxOutstanding' = rxOutstanding - PacketDropReleased("SendPacketSent")
            /\ UNCHANGED sres
       ELSE /\ sres' = [kind |-> "panic", n |-> 0]
            /\ rxOutstanding' = rxOutstanding - PacketDropReleased(pkt[t])
            /\ UNCHANGED <<txRing, txSubmitted, txDelivered>>
    /\ pkt' = [pkt EXCEPT ![t] = "none"]
    /\ pid' = [pid EXCEPT ![t] = 0]
    /\ UNCHANGED txInput
    /\ UNCHANGED <<ringOpen, rxQueue, readEvent>>
    /\ UNCHANGED <<owner, ref, pc, api, tries, buf, wres, result>>
    /\ UNCHANGED <<adapterVars, sessVars, asyncVars>>
    /\ UNCHANGED startVars
    /\ UNCHANGED copyVars
    /\ UNCHANGED crossVars
    /\ UNCHANGED cloneVars

\* a copy that leaves the last byte out
copy_all_but_last(src, size) == [tag |-> src.tag, filled |-> size - 1]
\* ptr::copy_nonoverlapping(buf.as_ptr(), ptr, size): the first size bytes
\* of the destination are those of the source.
copy_nonoverlapping(src, size) == [tag |-> src.tag, filled |-> size]

\* Session::send(buf): allocate buf.len() bytes, copy, send, Ok(buf.len()).
\* When the driver answers null, util::get_last_error()? returns the error;
\* were the last error 0, the copy would go on to the null pointer.
Send(t, b) ==
    /\ CanCall(t)
    /\ Len(txInput) < MaxSend
    /\ LET o == WintunAllocateSendPacket(b.len)
           c == copy_nonoverlapping(b, b.len)
       IN IF o = "packet"
          THEN /\ WintunSendPacket(Append(txRing, Allocated(b.len, c.tag, c.filled)), NextId)
               /\ txInput' = Append(txInput, b)
               /\ sres' = [kind |-> "Ok", n |-> b.len]
          ELSE /\ sres' = IF get_last_error(o) = "OsError"
                          THEN [kind |-> "OsError", n |-> 0]
                          ELSE [kind |-> "null_write", n |-> 0]
               /\ UNCHANGED <<txRing, txInput, txSubmitted, txDelivered>>
    /\ UNCHANGED pid
    /\ UNCHANGED <<adapterVars, sessVars, ringVars, threadVars, asyncVars, startVars>>
    /\ UNCHANGED copyVars
    /\ UNCHANGED crossVars
    /\ UNCHANGED cloneVars

\* A thread drops the Packet it holds; with it goes the Packet's Arc<Session>.
DropPacket(t) ==
    /\ pkt[t] # "none"
    /\ pc[t] = "idle"
    /\ pkt' = [pkt EXCEPT ![t] = "none"]
    /\ pid' = [pid EXCEPT ![t] = 0]
    /\ UNCHANGED <<txRing, txInput, txSubmitted, txDelivered, sres>>
    /\ rxOutstanding' = rxOutstanding - PacketDropReleased(pkt[t])
    /\ sessPc' = SessPcAfter(owner, ref, pkt', aref)
    /\ UNCHANGED <<ringOpen, rxQueue, readEvent>>
    /\ UNCHANGED <<owner, ref, pc, api, tries, buf, wres, result>>
    /\ UNCHANGED <<inner, shutdownSet, shutdownEvt, endCalls, dropShutdown,
                   sessionsCreated, sessionsEnded>>
    /\ UNCHANGED <<adapterVars, asyncVars>>
    /\ UNCHANGED startVars
    /\ UNCHANGED copyVars
    /\ UNCHANGED crossVars
    /\ UNCHANGED cloneVars

\* The caller of start_session drops its Arc<Session>.
DropOwner ==
    /\ owner
    /\ owner' = FALSE
    /\ sessPc' = SessPcAfter(owner', ref, pkt, aref)
    /\ UNCHANGED <<ref, pc, api, tries, buf, wres, pkt, result>>
    /\ UNCHANGED <<inner, shutdownSet, shutdownEvt, endCalls, dropShutdown,
                   sessionsCreated, sessionsEnded>>
    /\ UNCHANGED <<adapterVars, ringVars, asyncVars>>
    /\ UNCHANGED <<startVars, sendVars>>
    /\ UNCHANGED copyVars
    /\ UNCHANGED crossVars
    /\ UNCHANGED cloneVars

\* A thread drops its Arc<Session>.
DropRef(t) ==
    /\ CanCall(t)
    /\ ref' = [ref EXCEPT ![t] = FALSE]
    /\ result' = [result EXCEPT ![t] = "none"]
    /\ rd' = [rd EXCEPT ![t] = NoRead]
    /\ sessPc' = SessPcAfter(owner, ref', pkt, aref)
    /\ UNCHANGED <<owner, pc, api, tries, buf, wres, pkt>>
    /\ UNCHANGED <<inner, shutdownSet, shutdownEvt, endCalls, dropShutdown,
                   sessionsCreated, sessionsEnded>>
    /\ UNCHANGED <<adapterVars, ringVars, asyncVars>>
    /\ UNCHANGED <<startVars, sendVars>>
    /\ UNCHANGED ard
    /\ UNCHANGED crossVars
    /\ UNCHANGED cloneVars

\* ------------------------------------------------------------------------
\* AsyncSession
\* ------------------------------------------------------------------------

\* The Task of read_state: clones of an AsyncSession in Waiting hold the
\* same Arc<Mutex<Task>>.
ReadSlot(a) == <<tslot[a], "poll_read">>
RecvSlot(a) == <<a, "recv">>
Finished == {"Shutdown", "Ready", "panic"}
\* The AsyncSessions whose read_state holds the Task x.
Holders(x) == {b \in Adapters : aref[b] /\ read_state[b] = "Waiting" /\ tslot[b] = x}
\* Arc::new(Mutex::new(blocking::unblock(..))): a Task nobody holds and no
\* closure is running for.
FreeSlots == {x \in Adapters : task[<<x, "poll_read">>] = "none" /\ Holders(x) = {}}
FreeSlot(a) == IF a \in FreeSlots THEN a ELSE CHOOSE x \in FreeSlots : TRUE
\* What is left of a Task once one holder has polled it to the end: gone
\* with the last Arc, else kept by the other holders in the state given.
AfterPoll(a, left) == IF Holders(tslot[a]) \ {a} = {} THEN "none" ELSE left

\* AsyncSession::from(session.clone()): read_state starts Idle.
AsyncFrom(a) ==
    /\ owner
    /\ ~aref[a]
    /\ task[<<a, "poll_read">>] = "none" /\ task[RecvSlot(a)] = "none"
    /\ aref' = [aref EXCEPT ![a] = TRUE]
    /\ read_state' = [read_state EXCEPT ![a] = "Idle"]
    /\ aresult' = [aresult EXCEPT ![a] = "none"]
    /\ ard' = [ard EXCEPT ![a] = NoRead]
    /\ UNCHANGED <<task, apc, abuf>>
    /\ UNCHANGED <<adapterVars, sessVars, ringVars, threadVars>>
    /\ UNCHANGED <<startVars, sendVars>>
    /\ UNCHANGED rd
    /\ UNCHANGED crossVars
    /\ UNCHANGED cloneVars

\* A read future (AsyncReadExt::read) is polled for the first time.
PollReadBegin(a, n) ==
    /\ aref[a] /\ apc[a] = "idle"
    /\ apc' = [apc EXCEPT ![a] = "poll"]
    /\ abuf' = [abuf EXCEPT ![a] = n]
    /\ aresult' = [aresult EXCEPT ![a] = "none"]
    /\ ard' = [ard EXCEPT ![a] = NoRead]
    /\ UNCHANGED <<aref, read_state, task>>
    /\ UNCHANGED <<adapterVars, sessVars, ringVars, threadVars>>
    /\ UNCHANGED <<startVars, sendVars>>
    /\ UNCHANGED rd
    /\ UNCHANGED crossVars
    /\ UNCHANGED cloneVars

\* The pending read future is polled again (its waker fired, or any poll).
RePoll(a) ==
    /\ apc[a] = "pending"
    /\ apc' = [apc EXCEPT ![a] = "poll"]
    /\ UNCHANGED <<aref, read_state, task, abuf, aresult>>
    /\ UNCHANGED <<adapterVars, sessVars, ringVars, threadVars>>
    /\ UNCHANGED <<startVars, sendVars>>
    /\ UNCHANGED copyVars
    /\ UNCHANGED crossVars
    /\ UNCHANGED cloneVars

\* A read returned to its caller.
AsyncReturn(a, r) ==
    /\ apc' = [apc EXCEPT ![a] = "idle"]
    /\ abuf' = [abuf EXCEPT ![a] = 1]
    /\ aresult' = [aresult EXCEPT ![a] = r]

\* The pending read or recv future is dropped before it completed.  The Task
\* of a recv future goes with it; its closure keeps running on the pool.
CancelRead(a) ==
    /\ apc[a] \in {"pending", "recv_await"}
    /\ AsyncReturn(a, "none")
    /\ UNCHANGED <<aref, read_state, task>>
    /\ UNCHANGED <<adapterVars, sessVars, ringVars, threadVars>>
    /\ UNCHANGED <<startVars, sendVars>>
    /\ UNCHANGED copyVars
    /\ UNCHANGED crossVars
    /\ UNCHANGED cloneVars

\* a read that copies what fits and reports success
CopyResultTruncating(size, n) == "Data"
\* if buf.len() < size { Err("Buffer too small") } else { copy; Ok(size) }
CopyResult(size, n) == IF n < size THEN "BufferTooSmall" ELSE "Data"
\* buf[..size].copy_from_slice(&packet.bytes[..size]); Ok(size)
CopyRead(size, n) ==
    IF CopyResult(size, n) = "Data"
    THEN [copied |-> size, len |-> size]
    ELSE NoRead

\* poll_read, ReadState::Idle arm.  The Packet is dropped when the arm is left.
PollIdle(a) ==
    /\ apc[a] = "poll" /\ read_state[a] = "Idle"
    /\ \E o \in RecvOutcomes :
          /\ RingAfterReceive(o, IF try_receive(o) = "Some"
                                 THEN PacketDropReleased("ReceivePacket") ELSE 0)
          /\ CASE try_receive(o) = "Some" ->
                    /\ AsyncReturn(a, CopyResult(HeadSize, abuf[a]))
                    /\ ard' = [ard EXCEPT ![a] = CopyRead(HeadSize, abuf[a])]
                    /\ UNCHANGED <<read_state, task, tslot>>
               [] try_receive(o) = "None" ->
                    /\ FreeSlots # {}
                    /\ tslot' = [tslot EXCEPT ![a] = FreeSlot(a)]
                    /\ task' = [task EXCEPT ![<<FreeSlot(a), "poll_read">>] = "spawned"]
                    /\ read_state' = [read_state EXCEPT ![a] = "Waiting"]
                    /\ UNCHANGED <<apc, abuf, aresult, ard>>
               [] OTHER ->
                    /\ AsyncReturn(a, "OsError")
                    /\ UNCHANGED <<read_state, task, ard, tslot>>
    /\ UNCHANGED <<ringOpen, readEvent, aref>>
    /\ UNCHANGED <<adapterVars, sessVars, threadVars>>
    /\ UNCHANGED <<startVars, sendVars>>
    /\ UNCHANGED rd
    /\ UNCHANGED crossVars

\* poll_read, ReadState::Waiting arm: task.take(), lock, then the Task is
\* polled.  With no task left the arm returns Pending at once.  A failed
\* lock (the Mutex was poisoned) puts the task back and returns the error.
\* A panic of the closure is propagated by the poll, and a Task whose
\* output was already taken panics when polled again; both unwind after
\* the take and under the lock, which poisons the Mutex for the holders
\* that remain.
PollWaiting(a) ==
    /\ apc[a] = "poll" /\ read_state[a] \in {"Waiting", "WaitingNone"}
    /\ IF read_state[a] = "WaitingNone"
       THEN /\ apc' = [apc EXCEPT ![a] = "pending"]
            /\ UNCHANGED <<read_state, task, abuf, aresult>>
       ELSE CASE task[ReadSlot(a)] = "poisoned" ->
                    /\ AsyncReturn(a, "LockFailed")
                    /\ UNCHANGED <<read_state, task>>
              [] task[ReadSlot(a)] = "Shutdown" ->
                    /\ read_state' = [read_state EXCEPT ![a] = "Closed"]
                    /\ task' = [task EXCEPT ![ReadSlot(a)] = AfterPoll(a, "taken")]
                    /\ UNCHANGED <<apc, abuf, aresult>>
              [] task[ReadSlot(a)] = "Ready" ->
                    /\ read_state' = [read_state EXCEPT ![a] = "Idle"]
                    /\ task' = [task EXCEPT ![ReadSlot(a)] = AfterPoll(a, "taken")]
                    /\ UNCHANGED <<apc, abuf, aresult>>
              [] task[ReadSlot(a)] \in {"panic", "taken"} ->
                    /\ read_state' = [read_state EXCEPT ![a] = "WaitingNone"]
                    /\ task' = [task EXCEPT ![ReadSlot(a)] = AfterPoll(a, "poisoned")]
                    /\ AsyncReturn(a, "panic")
              [] OTHER ->
                    /\ apc' = [apc EXCEPT ![a] = "pending"]
                    /\ UNCHANGED <<read_state, task, abuf, aresult>>
    /\ UNCHANGED aref
    /\ UNCHANGED <<adapterVars, sessVars, ringVars, threadVars>>
    /\ UNCHANGED <<startVars, sendVars>>
    /\ UNCHANGED copyVars
    /\ UNCHANGED crossVars
    /\ UNCHANGED cloneVars

\* poll_read, ReadState::Closed arm: Poll::Ready(Ok(0)); AsyncSession::recv
\* reports the same wake-up as Err("Shutdown").
PollClosedAsError(a) ==
    /\ apc[a] = "poll" /\ read_state[a] = "Closed"
    /\ AsyncReturn(a, "ShutdownErr")
    /\ UNCHANGED <<aref, read_state, task>>
    /\ UNCHANGED <<adapterVars, sessVars, ringVars, threadVars>>
    /\ UNCHANGED <<startVars, sendVars>>
    /\ UNCHANGED copyVars
    /\ UNCHANGED crossVars
    /\ UNCHANGED cloneVars

\* a Closed arm that reports end-of-stream once and then reads again
PollClosedReopens(a) ==
    /\ apc[a] = "poll" /\ read_state[a] = "Closed"
    /\ AsyncReturn(a, "Eof")
    /\ read_state' = [read_state EXCEPT ![a] = "Idle"]
    /\ UNCHANGED <<aref, task>>
    /\ UNCHANGED <<adapterVars, sessVars, ringVars, threadVars>>
    /\ UNCHANGED <<startVars, sendVars>>
    /\ UNCHANGED copyVars
    /\ UNCHANGED crossVars
    /\ UNCHANGED cloneVars

PollClosed(a) ==
    /\ apc[a] = "poll" /\ read_state[a] = "Closed"
    /\ AsyncReturn(a, "Eof")
    /\ UNCHANGED <<aref, read_state, task>>
    /\ UNCHANGED <<adapterVars, sessVars, ringVars, threadVars>>
    /\ UNCHANGED <<startVars, sendVars>>
    /\ UNCHANGED copyVars
    /\ UNCHANGED crossVars
    /\ UNCHANGED cloneVars

\* poll_close: self.session.shutdown()?; Poll::Ready(Ok(()))
PollClose(a) ==
    /\ aref[a] /\ apc[a] \in {"idle", "pending"}
    /\ \E ok \in BOOLEAN :
          /\ shutdown(ok)
          /\ aresult' = [aresult EXCEPT ![a] = IF ok THEN "CloseOk" ELSE "CloseErr"]
    /\ UNCHANGED <<aref, read_state, apc, abuf>>
    /\ UNCHANGED <<owner, ref, api, tries, buf, pkt, result>>
    /\ UNCHANGED <<sessPc, shutdownEvt, dropShutdown, sessionsCreated>>
    /\ UNCHANGED adapterVars
    /\ UNCHANGED <<startVars, pid, sres>>
    /\ UNCHANGED copyVars
    /\ UNCHANGED crossVars
    /\ UNCHANGED cloneVars

\* AsyncSession::recv is called (the future is polled for the first time).
RecvBegin(a, n) ==
    /\ aref[a] /\ apc[a] = "idle"
    /\ task[RecvSlot(a)] = "none"
    /\ apc' = [apc EXCEPT ![a] = "recv"]
    /\ abuf' = [abuf EXCEPT ![a] = n]
    /\ aresult' = [aresult EXCEPT ![a] = "none"]
    /\ ard' = [ard EXCEPT ![a] = NoRead]
    /\ UNCHANGED <<aref, read_state, task>>
    /\ UNCHANGED <<adapterVars, sessVars, ringVars, threadVars>>
    /\ UNCHANGED <<startVars, sendVars>>
    /\ UNCHANGED rd
    /\ UNCHANGED crossVars
    /\ UNCHANGED cloneVars

\* AsyncSession::recv, one iteration of its loop up to the await.
RecvTry(a) ==
    /\ apc[a] = "recv"
    /\ \E o \in RecvOutcomes :
          /\ RingAfterReceive(o, IF try_receive(o) = "Some"
                                 THEN PacketDropReleased("ReceivePacket") ELSE 0)
          /\ CASE try_receive(o) = "Some" ->
                    /\ AsyncReturn(a, CopyResult(HeadSize, abuf[a]))
                    /\ ard' = [ard EXCEPT ![a] = CopyRead(HeadSize, abuf[a])]
                    /\ UNCHANGED task
               [] try_receive(o) = "None" ->
                    /\ task' = [task EXCEPT ![RecvSlot(a)] = "spawned"]
                    /\ apc' = [apc EXCEPT ![a] = "recv_await"]
                    /\ UNCHANGED <<abuf, aresult, ard>>
               [] OTHER ->
                    /\ AsyncReturn(a, "OsError")
                    /\ UNCHANGED <<task, ard>>
    /\ UNCHANGED <<ringOpen, readEvent, aref, read_state>>
    /\ UNCHANGED <<adapterVars, sessVars, threadVars>>
    /\ UNCHANGED <<startVars, sendVars>>
    /\ UNCHANGED rd
    /\ UNCHANGED crossVars
    /\ UNCHANGED cloneVars

\* AsyncSession::recv, the match on the awaited WaitingStopReason
recv_after_wait(reason) ==
    CASE reason = "Shutdown" -> "ShutdownErr"
      [] reason = "Ready" -> "continue"
      [] OTHER -> "panic"

\* The awaited Task of recv completed.
RecvAwait(a) ==
    /\ apc[a] = "recv_await"
    /\ task[RecvSlot(a)] \in Finished
    /\ task' = [task EXCEPT ![RecvSlot(a)] = "none"]
    /\ IF recv_after_wait(task[RecvSlot(a)]) = "continue"
       THEN /\ apc' = [apc EXCEPT ![a] = "recv"]
            /\ UNCHANGED <<abuf, aresult>>
       ELSE AsyncReturn(a, recv_after_wait(task[RecvSlot(a)]))
    /\ UNCHANGED <<aref, read_state>>
    /\ UNCHANGED <<adapterVars, sessVars, ringVars, threadVars>>
    /\ UNCHANGED <<startVars, sendVars>>
    /\ UNCHANGED copyVars
    /\ UNCHANGED crossVars
    /\ UNCHANGED cloneVars

\* The closure given to blocking::unblock runs wait_for_read on the pool.
Worker(s) ==
    /\ task[s] = "spawned"
    /\ IF Satisfied(AsyncHandles)
       THEN task' = [task EXCEPT ![s] =
                        wait_for_read(WAIT_OBJECT_0 + FirstSignalled(AsyncHandles) - 1)]
       ELSE task' = [task EXCEPT ![s] = "blocked"]
    /\ readEvent' = ReadEventAfterWait(AsyncHandles)
    /\ shutdownSet' = ShutdownAfterWait(AsyncHandles)
    /\ UNCHANGED <<ringOpen, rxQueue, rxOutstanding>>
    /\ UNCHANGED <<sessPc, inner, shutdownEvt, endCalls, dropShutdown,
                   sessionsCreated, sessionsEnded>>
    /\ UNCHANGED <<aref, read_state, apc, abuf, aresult>>
    /\ UNCHANGED <<adapterVars, threadVars>>
    /\ UNCHANGED <<startVars, sendVars>>
    /\ UNCHANGED copyVars
    /\ UNCHANGED crossVars
    /\ UNCHANGED cloneVars

\* A wait on a closed handle is undefined: it may return any value (or never).
ClosedHandleResults ==
    {WAIT_OBJECT_0, WAIT_OBJECT_1, WAIT_ABANDONED_0, WAIT_ABANDONED_1, WAIT_FAILED}

WorkerOnClosedHandle(s) ==
    /\ task[s] = "dangling"
    /\ \E r \in ClosedHandleResults : task' = [task EXCEPT ![s] = wait_for_read(r)]
    /\ UNCHANGED <<aref, read_state, apc, abuf, aresult>>
    /\ UNCHANGED <<adapterVars, sessVars, ringVars, threadVars>>
    /\ UNCHANGED <<startVars, sendVars>>
    /\ UNCHANGED copyVars
    /\ UNCHANGED crossVars
    /\ UNCHANGED cloneVars

\* packet.bytes.copy_from_slice(buf): panics unless both have one length.
copy_from_slice(dstLen, src) ==
    IF dstLen = src.len THEN [tag |-> src.tag, filled |-> src.len] ELSE [tag |-> "panic", filled |-> 0]

\* AsyncSession::internal_send(buf), called by send and by poll_write:
\* allocate_send_packet(buf.len() as _)?, copy_from_slice, send_packet,
\* Ok(buf.len()).  A panic of copy_from_slice unwinds through the Packet,
\* which is dropped as it is, not sent.
internal_send(a, b) ==
    LET size == as_u16(b.len)
        o == WintunAllocateSendPacket(size)
        c == copy_from_slice(size, b)
    IN IF o # "packet"
       THEN /\ sres' = [kind |-> get_last_error(o), n |-> 0]
            /\ UNCHANGED <<txRing, txInput, txSubmitted, txDelivered>>
       ELSE IF c.tag = "panic"
       THEN /\ txRing' = Append(txRing, Allocated(size, "uninit", 0))
            /\ txInput' = Append(txInput, b)
            /\ sres' = [kind |-> "panic", n |-> 0]
            /\ UNCHANGED <<txSubmitted, txDelivered>>
       ELSE /\ WintunSendPacket(Append(txRing, Allocated(size, c.tag, c.filled)), NextId)
            /\ txInput' = Append(txInput, b)
            /\ sres' = [kind |-> "Ok", n |-> b.len]

\* AsyncSession::send / AsyncWrite::poll_write
AsyncSend(a, b) ==
    /\ aref[a]
    /\ apc[a] \in {"idle", "pending"}
    /\ Len(txInput) < MaxSend
    /\ internal_send(a, b)
    /\ UNCHANGED pid
    /\ UNCHANGED <<adapterVars, sessVars, ringVars, threadVars, asyncVars, startVars>>
    /\ UNCHANGED copyVars
    /\ UNCHANGED crossVars
    /\ UNCHANGED cloneVars

\* #[derive(Clone)] on AsyncSession and ReadState: the clone gets a clone of
\* the Arc<Session> and of read_state, a Waiting state with the same
\* Arc<Mutex<Task>> included.
CloneAsync(a, b) ==
    /\ aref[a] /\ apc[a] \in {"idle", "pending"}
    /\ ~aref[b]
    /\ task[<<b, "poll_read">>] = "none" /\ task[RecvSlot(b)] = "none"
    /\ aref' = [aref EXCEPT ![b] = TRUE]
    /\ read_state' = [read_state EXCEPT ![b] = read_state[a]]
    /\ tslot' = [tslot EXCEPT ![b] = IF read_state[a] = "Waiting" THEN tslot[a] ELSE b]
    /\ aresult' = [aresult EXCEPT ![b] = "none"]
    /\ ard' = [ard EXCEPT ![b] = NoRead]
    /\ UNCHANGED <<task, apc, abuf>>
    /\ UNCHANGED <<adapterVars, sessVars, ringVars, threadVars>>
    /\ UNCHANGED <<startVars, sendVars>>
    /\ UNCHANGED rd
    /\ UNCHANGED crossVars

\* The AsyncSession is dropped: its Arc<Session> and its Task handle go, the
\* closure of the Task keeps running; a Task that has finished and was
\* polled to the end goes with its last holder.
DropAsync(a) ==
    /\ aref[a] /\ apc[a] = "idle"
    /\ aref' = [aref EXCEPT ![a] = FALSE]
    /\ read_state' = [read_state EXCEPT ![a] = "Idle"]
    /\ tslot' = [tslot EXCEPT ![a] = a]
    /\ aresult' = [aresult EXCEPT ![a] = "none"]
    /\ sessPc' = SessPcAfter(owner, ref, pkt, aref')
    /\ task' = IF read_state[a] = "Waiting" /\ task[ReadSlot(a)] \in {"taken", "poisoned"}
               THEN [task EXCEPT ![ReadSlot(a)] = AfterPoll(a, task[ReadSlot(a)])]
               ELSE task
    /\ UNCHANGED <<apc, abuf>>
    /\ UNCHANGED <<inner, shutdownSet, shutdownEvt, endCalls, dropShutdown,
                   sessionsCreated, sessionsEnded>>
    /\ UNCHANGED <<adapterVars, ringVars, threadVars>>
    /\ UNCHANGED <<startVars, sendVars>>
    /\ UNCHANGED copyVars
    /\ UNCHANGED crossVars

\* The result of a closure whose Task handle was dropped is discarded.
Orphan(s) ==
    IF s[2] = "poll_read" THEN Holders(s[1]) = {} ELSE apc[s[1]] # "recv_await"

DiscardOrphan(s) ==
    /\ task[s] \in Finished
    /\ Orphan(s)
    /\ task' = [task EXCEPT ![s] = "none"]
    /\ UNCHANGED <<aref, read_state, apc, abuf, aresult>>
    /\ UNCHANGED <<adapterVars, sessVars, ringVars, threadVars>>
    /\ UNCHANGED <<startVars, sendVars>>
    /\ UNCHANGED copyVars
    /\ UNCHANGED crossVars
    /\ UNCHANGED cloneVars

\* ------------------------------------------------------------------------
\* Specifications
\* ------------------------------------------------------------------------

ThreadCall(t) ==
    \/ TryReceive(t)
    \/ \E n \in Sizes : TryRecv(t, n)
    \/ BeginReceiveBlocking(t)
    \/ \E n \in Sizes : BeginRecv(t, n)
    \/ DropPacket(t)

ThreadSend(t) ==
    \/ \E size \in Sizes, tag \in Tags : AllocateSendPacket(t, size, tag)
    \/ SendPacket(t)
    \/ \E b \in SendBufs : Send(t, b)

\* every capacity class: below the range, its ends, inside it, above it
Capacities ==
    {0, 64, MIN_RING_CAPACITY - 1, MIN_RING_CAPACITY, 4096, 5000,
     MAX_RING_CAPACITY, MAX_RING_CAPACITY + 1, 2 * MAX_RING_CAPACITY}

StartCall ==
    \E capacity \in Capacities :
        \/ StartSessionInvalid(capacity)
        \/ StartSessionRejected(capacity)
        \/ StartSession(capacity)

ThreadStep(t) ==
    \/ SpinReceiveBlocking(t)
    \/ SpinRecv(t)
    \/ WaitEnter(t)
    \/ WaitReturn(t)

AsyncCall(a) ==
    \/ \E n \in Sizes : PollReadBegin(a, n)
    \/ \E n \in Sizes : RecvBegin(a, n)
    \/ PollClose(a)
    \/ CancelRead(a)
    \/ DropAsync(a)

AsyncStep(a) ==
    \/ PollIdle(a)
    \/ PollWaiting(a)
    \/ PollClosed(a)
    \/ RecvTry(a)
    \/ RecvAwait(a)

WorkerStep(s) ==
    \/ Worker(s)
    \/ WorkerOnClosedHandle(s)
    \/ DiscardOrphan(s)

\* ------------------------------------------------------------------------
\* A second Session
\* ------------------------------------------------------------------------

\* start_session on a second adapter returned a Session.
StartOther ==
    /\ other = "none"
    /\ other' = "alive"
    /\ UNCHANGED otherCalls
    /\ UNCHANGED <<adapterVars, sessVars, ringVars, threadVars, asyncVars, startVars,
                   sendVars, copyVars, cloneVars>>

\* Session::send on the second Session: it allocates from its own ring and
\* calls WintunSendPacket with its own handle.
OtherSend ==
    /\ other = "alive"
    /\ Len(otherCalls) < MaxOtherCalls
    /\ otherCalls' = Append(otherCalls, "other")
    /\ UNCHANGED other
    /\ UNCHANGED <<adapterVars, sessVars, ringVars, threadVars, asyncVars, startVars,
                   sendVars, copyVars, cloneVars>>

\* Session::send_packet called on the second Session with the Packet the
\* thread holds, which was allocated from this Session.  The assertion
\* looks at the kind only; WintunSendPacket then gets the second Session's
\* handle and a pointer into this Session's ring.  What the driver does
\* with a pointer outside the ring of the handle is not defined: the
\* buffer's header may or may not be marked ready, the second ring may or
\* may not be damaged.  The Packet is dropped at the end of the call.
SendPacketOther(t) ==
    /\ pc[t] = "idle"
    /\ pkt[t] # "none"
    /\ other \in {"alive", "corrupt"}
    /\ Len(otherCalls) < MaxOtherCalls
    /\ IF assert_pending(pkt[t])
       THEN /\ otherCalls' = Append(otherCalls, "this")
            /\ \E marked \in BOOLEAN :
                  txRing' = IF marked THEN MarkSent(txRing, pid[t]) ELSE txRing
            /\ other' \in {other, "corrupt"}
            /\ rxOutstanding' = rxOutstanding - PacketDropReleased("SendPacketSent")
            /\ UNCHANGED sres
       ELSE /\ sres' = [kind |-> "panic", n |-> 0]
            /\ rxOutstanding' = rxOutstanding - PacketDropReleased(pkt[t])
            /\ UNCHANGED <<txRing, other, otherCalls>>
    /\ pkt' = [pkt EXCEPT ![t] = "none"]
    /\ pid' = [pid EXCEPT ![t] = 0]
    /\ sessPc' = SessPcAfter(owner, ref, pkt', aref)
    /\ UNCHANGED <<txInput, txSubmitted, txDelivered>>
    /\ UNCHANGED <<ringOpen, rxQueue, readEvent>>
    /\ UNCHANGED <<owner, ref, pc, api, tries, buf, wres, result>>
    /\ UNCHANGED <<inner, shutdownSet, shutdownEvt, endCalls, dropShutdown,
                   sessionsCreated, sessionsEnded>>
    /\ UNCHANGED <<adapterVars, asyncVars>>
    /\ UNCHANGED startVars
    /\ UNCHANGED copyVars
    /\ UNCHANGED cloneVars

\* The second Session is dropped.
DropOther ==
    /\ other \in {"alive", "corrupt"}
    /\ other' = "ended"
    /\ UNCHANGED otherCalls
    /\ UNCHANGED <<adapterVars, sessVars, ringVars, threadVars, asyncVars, startVars,
                   sendVars, copyVars, cloneVars>>

SessionDrop ==
    \/ DropShutdown
    \/ DropEndSession
    \/ DropNull
    \/ DropFields

Lifecycle ==
    \/ StartSession(MAX_RING_CAPACITY)
    \/ DropAdapterRef
    \/ DriverDeliver
    \/ SessionDrop
    \/ Shutdown
    \/ DropOwner
    \/ \E t \in Threads : DropRef(t)

Next ==
    \/ Lifecycle
    \/ StartCall
    \/ \E t \in Threads : ThreadCall(t) \/ ThreadStep(t) \/ ThreadSend(t)
    \/ \E a \in Originals : AsyncFrom(a) \/ AsyncCall(a) \/ RePoll(a) \/ AsyncStep(a)
    \/ \E a \in Originals, b \in SendBufs : AsyncSend(a, b)
    \/ \E s \in Slots : WorkerStep(s)
    \/ StartOther \/ OtherSend \/ DropOther
    \/ \E t \in Threads : SendPacketOther(t)

Spec == Init /\ [][Next]_vars

\* Two Sessions: threads allocate from, send through and drop Packets of
\* this Session while a second Session is live.
CrossNext ==
    \/ StartSession(MAX_RING_CAPACITY)
    \/ SessionDrop
    \/ DropOwner
    \/ \E t \in Threads : DropRef(t)
    \/ \E t \in Threads :
          \/ TryReceive(t)
          \/ AllocateSendPacket(t, MaxSize, "x")
          \/ SendPacket(t)
          \/ DropPacket(t)
          \/ SendPacketOther(t)
    \/ DriverDeliver
    \/ StartOther \/ OtherSend \/ DropOther

CrossSpec == Init /\ [][CrossNext]_vars

\* An AsyncSession and its clone read with poll_read while the driver
\* delivers and the Session is shut down.
CloneNext ==
    \/ StartSession(MAX_RING_CAPACITY)
    \/ DriverDeliver
    \/ Shutdown
    \/ DropOwner
    \/ \E t \in Threads : DropRef(t)
    \/ SessionDrop
    \/ \E a \in Originals : AsyncFrom(a)
    \/ \E a \in Originals, b \in Clones : CloneAsync(a, b)
    \/ \E a \in Adapters :
          \/ PollReadBegin(a, MaxSize)
          \/ RePoll(a)
          \/ PollIdle(a)
          \/ PollWaiting(a)
          \/ PollClosed(a)
          \/ CancelRead(a)
          \/ DropAsync(a)
    \/ \E s \in Slots : WorkerStep(s)

CloneSpec == Init /\ [][CloneNext]_vars

\* start_session with every kind of capacity, on an adapter with or without
\* a Session.
StartNext ==
    \/ Lifecycle
    \/ StartCall

StartSpec == Init /\ [][StartNext]_vars

\* The send side: threads and an AsyncSession allocate and send, a thread
\* may also hold a received Packet.
SendNext ==
    \/ StartSession(MAX_RING_CAPACITY)
    \/ DropAdapterRef
    \/ SessionDrop
    \/ Shutdown
    \/ DropOwner
    \/ \E t \in Threads : DropRef(t)
    \/ \E t \in Threads : ThreadSend(t) \/ DropPacket(t)
    \/ \E a \in Originals : AsyncFrom(a) \/ DropAsync(a)
    \/ \E a \in Originals, b \in SendBufs : AsyncSend(a, b)

SendSpec == Init /\ [][SendNext]_vars

\* Packets of both kinds: threads receive with try_receive, allocate, send
\* and drop Packets while the driver delivers and the Session is shut down
\* and dropped.  What the send packets carry plays no part here.
PacketNext ==
    \/ Lifecycle
    \/ \E t \in Threads :
          \/ TryReceive(t)
          \/ AllocateSendPacket(t, MaxSize, "x")
          \/ SendPacket(t)
          \/ DropPacket(t)

PacketSpec == Init /\ [][PacketNext]_vars

\* Threads only: no AsyncSession is made.
SyncNext ==
    \/ Lifecycle
    \/ \E t \in Threads : ThreadCall(t) \/ ThreadStep(t)

SyncSpec == Init /\ [][SyncNext]_vars

\* AsyncSession only: the threads hold their clones and let go of them.
AsyncNext ==
    \/ Lifecycle
    \/ \E a \in Originals : AsyncFrom(a) \/ AsyncCall(a) \/ RePoll(a) \/ AsyncStep(a)
    \/ \E s \in Slots : WorkerStep(s)

AsyncSpec == Init /\ [][AsyncNext]_vars

\* The reader keeps being polled (poll_read is called again and again and a
\* pending read is polled again) and the pool runs the offloaded waits.
FairAsyncSpec ==
    /\ AsyncSpec
    /\ \A a \in Originals :
          /\ SF_vars(\E n \in Sizes : PollReadBegin(a, n))
          /\ WF_vars(RePoll(a))
          /\ WF_vars(AsyncStep(a))
    /\ \A s \in Slots : WF_vars(Worker(s))

\* Fair scheduling of the threads inside a receive call: a thread that can
\* take a step of its call eventually does, and a thread that can again and
\* again take a queued packet eventually takes one.
TakesPacket(t) == (SpinReceiveBlocking(t) \/ SpinRecv(t)) /\ rxQueue' # rxQueue

FairSyncSpec ==
    /\ SyncSpec
    /\ \A t \in Threads : WF_vars(ThreadStep(t)) /\ SF_vars(TakesPacket(t))

\* Reads into a caller's buffer on both sides: an AsyncSession reads while
\* threads call try_recv and recv.  Only the steps of a read that reach the packet
\* copy are taken; a read that has to wait can be dropped.
ReadNext ==
    \/ Lifecycle
    \/ \E a \in Originals : AsyncFrom(a) \/ PollIdle(a) \/ RecvTry(a) \/ CancelRead(a)
    \/ \E a \in Originals, n \in Sizes : PollReadBegin(a, n) \/ RecvBegin(a, n)
    \/ \E t \in Threads, n \in Sizes : TryRecv(t, n) \/ BeginRecv(t, n)
    \/ \E t \in Threads : SpinRecv(t)

ReadSpec == Init /\ [][ReadNext]_vars

\* Waits on both sides: threads block in receive_blocking and in recv while
\* the pool runs the offloaded wait of a poll_read.  No read future is
\* dropped before it completed, so no closure outlives its Task.
WaitNext ==
    \/ Lifecycle
    \/ \E t \in Threads :
          \/ BeginReceiveBlocking(t)
          \/ SpinReceiveBlocking(t)
          \/ BeginRecv(t, MaxSize)
          \/ SpinRecv(t)
          \/ WaitEnter(t)
          \/ WaitReturn(t)
          \/ DropPacket(t)
    \/ \E a \in Originals :
          \/ AsyncFrom(a)
          \/ PollReadBegin(a, MaxSize)
          \/ RePoll(a)
          \/ PollIdle(a)
          \/ PollWaiting(a)
          \/ PollClosed(a)
          \/ DropAsync(a)
    \/ \E s \in Slots : Worker(s)

WaitSpec == Init /\ [][WaitNext]_vars

\* ------------------------------------------------------------------------
\* Properties
\* ------------------------------------------------------------------------

\* C1: when shutdown() raises the signal while threads are blocked in
\* receive_blocking, every blocked thread is released with the index of the
\* shutdown event, and a thread so released returns ShuttingDown: it goes
\* nowhere else and it does return.
C1_ShutdownCancelsBlocked ==
    /\ [][Shutdown => \A t \in Threads :
              pc[t] = "blocked" => pc'[t] = "woken" /\ wres'[t] = WAIT_OBJECT_1]_vars
    /\ [][\A t \in Threads :
              (pc[t] = "woken" /\ wres[t] = WAIT_OBJECT_1 /\ pc'[t] # "woken")
              => (pc'[t] = "idle" /\ result'[t] = "ShuttingDown")]_vars
    /\ \A t \in Threads :
          (pc[t] = "woken" /\ wres[t] = WAIT_OBJECT_1)
          ~> (pc[t] = "idle" /\ result[t] = "ShuttingDown")

\* Every thread was blocked in receive_blocking and has been released by shutdown.
C1_Witness ==
    \A t \in Threads :
        pc[t] = "woken" /\ wres[t] = WAIT_OBJECT_1 /\ api[t] = "receive_blocking"

\* C2: once the shutdown signal is set, a receive_blocking or recv call that
\* starts returns after finitely many steps, however many callers there are.
C2_CallAfterShutdownReturns ==
    \A t \in Threads :
        (shutdownSet /\ pc[t] = "try" /\ tries[t] = 0) ~> (pc[t] = "idle")

\* C3: the shutdown signal is unset when start_session returns the Session, a
\* shutdown() that does anything sets it, nothing unsets it while the Session
\* exists, and shutdown() on a set signal changes nothing.
C3_ShutdownLatch ==
    /\ [][(StartSession(MAX_RING_CAPACITY) /\ sessPc' = "alive") => ~shutdownSet']_vars
    /\ [][Shutdown => shutdownSet']_vars
    /\ [][(shutdownSet /\ sessPc' # "none") => shutdownSet']_vars
    /\ [][(Shutdown /\ shutdownSet) => UNCHANGED vars]_vars

\* A waiter has observed the signal and returned, and the signal is still set.
C3_Witness ==
    /\ shutdownSet /\ sessPc = "alive"
    /\ \E t \in Threads : result[t] = "ShuttingDown" /\ pc[t] = "idle"

\* C4: while a Packet (received or allocated for sending) is live, its ring
\* has not been ended and Drop for Session has not begun.
C4_PacketWithinSession ==
    \A t \in Threads :
        pkt[t] # "none" => (ringOpen /\ endCalls = 0 /\ sessPc = "alive")

\* Every Arc<Session> held by a caller is gone; only the Packets, one of each
\* kind, keep the Session alive.
C4_Witness ==
    /\ ~owner /\ \A t \in Threads : ~ref[t]
    /\ \A a \in Adapters : ~aref[a]
    /\ \E t, u \in Threads : pkt[t] = "ReceivePacket" /\ pkt[u] = "SendPacketPending"
    /\ sessPc = "alive"

\* C5: WintunCloseAdapter is called at most once; when it has been called no
\* Session of the adapter exists and every Session started was ended; it is
\* called when the last reference goes, whether or not the name lookup or the
\* registry cleanup failed.
C5_AdapterClosedOnce ==
    /\ closeCalls <= 1
    /\ (closeCalls = 1) <=> (adapter = "null")
    /\ (closeCalls = 1) => (sessPc = "none" /\ sessionsEnded = sessionsCreated /\ ~adapterRef)
    /\ (~adapterRef /\ sessPc = "none") => (closeCalls = 1)
    /\ (adapterDrop # "none") <=> (closeCalls = 1)

\* The adapter was closed after its Session was ended although get_name failed.
C5_Witness ==
    /\ closeCalls = 1 /\ adapter = "null"
    /\ adapterDrop = "name_failed"
    /\ sessionsCreated = 1 /\ sessionsEnded = 1

\* C6: Drop for Session first calls shutdown(), then WintunEndSession exactly
\* once, then nulls the handle, and does so whatever shutdown() returned.
C6_DropOrder ==
    /\ [](sessPc = "drop_begin" => (dropShutdown = "none" /\ endCalls = 0 /\ inner = "handle"))
    /\ [](sessPc = "drop_signalled" => (dropShutdown # "none" /\ endCalls = 0 /\ inner = "handle"))
    /\ [](sessPc = "drop_ended" => (dropShutdown # "none" /\ endCalls = 1 /\ inner = "handle"))
    /\ [](sessPc = "drop_nulled" => (dropShutdown # "none" /\ endCalls = 1 /\ inner = "null"))
    /\ [](dropShutdown = "Ok" => shutdownSet)
    /\ [][endCalls' # endCalls => (sessPc # "drop_signalled" => endCalls' = 0)]_vars
    /\ [][(inner = "handle" /\ inner' = "null") => endCalls = 1]_vars

\* SetEvent failed in Drop, and the ring was still ended once and the handle nulled.
C6_Witness ==
    sessPc = "drop_nulled" /\ dropShutdown = "OsError" /\ endCalls = 1 /\ inner = "null"

\* C7: when a ring has been ended, every buffer WintunReceivePacket handed
\* out of it has been given back, and none was given back twice.
C7_ReceivedBuffersReleased ==
    /\ rxOutstanding >= 0
    /\ ~ringOpen => rxOutstanding = 0

\* A poll_read call returns Ready in this step.
ReadCompletes(a) == apc[a] = "poll" /\ apc'[a] = "idle"

\* C8 as stated: with the shutdown signal set, every poll_read that returns
\* Ready returns zero bytes.
C8_ReadAfterShutdownIsEof ==
    [][\A a \in Adapters : (shutdownSet /\ ReadCompletes(a)) => aresult'[a] = "Eof"]_vars

\* C8: with the shutdown signal set, a poll_read that finds the receive queue
\* empty returns zero bytes unless the driver call itself fails; Closed is
\* entered only with the signal set, is never left, and every read in Closed
\* returns zero bytes; a poll_read that finds a packet queued still returns
\* that packet (or the too-small-buffer error).
C8_ReadAfterShutdown ==
    /\ [][\A a \in Adapters :
              (shutdownSet /\ ReadCompletes(a) /\ rxQueue = <<>>)
              => aresult'[a] \in {"Eof", "OsError"}]_vars
    /\ [][\A a \in Adapters :
              (shutdownSet /\ ReadCompletes(a) /\ rxQueue # <<>> /\ read_state[a] = "Idle")
              => aresult'[a] \in {"Data", "BufferTooSmall", "OsError"}]_vars
    /\ [][\A a \in Adapters :
              (read_state[a] = "Closed" /\ ReadCompletes(a)) => aresult'[a] = "Eof"]_vars
    /\ [][\A a \in Adapters :
              (read_state[a] = "Closed" /\ aref'[a]) => read_state'[a] = "Closed"]_vars
    /\ [][\A a \in Adapters :
              (read_state[a] # "Closed" /\ read_state'[a] = "Closed") => shutdownSet]_vars

\* A read ended with zero bytes in Closed while a packet sits in the queue.
C8_Witness ==
    \E a \in Adapters :
        /\ shutdownSet /\ aref[a]
        /\ read_state[a] = "Closed" /\ aresult[a] = "Eof" /\ apc[a] = "idle"
        /\ rxQueue # <<>>

\* C9: an asynchronous read whose offloaded wait ended with Shutdown ends as
\* end-of-stream: poll_read moves to Closed (and returns zero bytes there),
\* AsyncSession::recv returns zero bytes.
C9_ShutdownWakeIsEof ==
    /\ [][\A a \in Adapters :
              (PollWaiting(a) /\ read_state[a] = "Waiting" /\ task[ReadSlot(a)] = "Shutdown")
              => read_state'[a] = "Closed"]_vars
    /\ [][\A a \in Adapters :
              (RecvAwait(a) /\ task[RecvSlot(a)] = "Shutdown") => aresult'[a] = "Eof"]_vars

\* C10: a poll_close that returns Ok has set the shutdown signal; and with the
\* signal set, a reader in Idle or Waiting that keeps being polled reaches
\* Closed and is returned zero bytes, unless a packet arrives, the driver
\* fails a receive or the AsyncSession is dropped.
C10_CloseEndsReader ==
    /\ [][\A a \in Adapters : (PollClose(a) /\ aresult'[a] = "CloseOk") => shutdownSet']_vars
    /\ \A a \in Adapters :
          (shutdownSet /\ aref[a] /\ read_state[a] \in {"Idle", "Waiting"}
              /\ rxQueue = <<>> /\ aresult[a] # "OsError")
          ~> \/ read_state[a] = "Closed" /\ aresult[a] = "Eof"
             \/ rxQueue # <<>>
             \/ aresult[a] = "OsError"
             \/ ~aref[a]

\* poll_close was called while a read was pending in Waiting, and its signal
\* has released the offloaded wait.
C10_Witness ==
    \E a \in Adapters :
        /\ aresult[a] = "CloseOk" /\ shutdownSet
        /\ read_state[a] = "Waiting" /\ apc[a] = "pending"
        /\ task[ReadSlot(a)] = "Shutdown"

\* ---- the send side

\* The ids of a sequence of buffers.
Ids(q) == [i \in 1..Len(q) |-> q[i].id]

\* C11 as the specification has it: the peer observes the packets in the
\* order in which send_packet was called on them, whatever the order of
\* their allocation.
C11_DeliveryInSubmissionOrder ==
    Ids(txDelivered) = SubSeq(txSubmitted, 1, Len(txDelivered))

\* C11: the peer observes the packets of a session in the order in which
\* they were allocated: the k-th packet observed is the k-th allocated, and
\* it is observed only once it and every packet allocated before it were
\* sent, whatever the order of the send calls.
C11_DeliveryInAllocationOrder ==
    /\ \A i \in 1..Len(txDelivered) : txDelivered[i].id = i
    /\ \A i \in 1..Len(txDelivered) : \E k \in 1..Len(txSubmitted) : txSubmitted[k] = i

\* B was sent before A, and the peer observed A before B.
C11_Witness ==
    /\ Len(txSubmitted) >= 2 /\ txSubmitted[1] = 2 /\ txSubmitted[2] = 1
    /\ Len(txDelivered) >= 2 /\ txDelivered[1].id = 1 /\ txDelivered[2].id = 2

\* C12: while a packet that was allocated has not been sent, no packet
\* allocated after it has reached the peer, sent or not; a step either sends
\* that packet, ends the session, or leaves it and every packet behind it in
\* the ring.
C12_UnsentHoldsBack ==
    /\ [](\A i \in 1..Len(txRing) : ~txRing[i].sent =>
             \A k \in 1..Len(txDelivered) : txDelivered[k].id < txRing[i].id)
    /\ [][\A i \in 1..Len(txRing) : ~txRing[i].sent =>
             \/ txRing' = <<>> /\ sessPc' = "drop_ended"
             \/ \E k \in 1..Len(txSubmitted') : txSubmitted'[k] = txRing[i].id
             \/ \A j \in i..Len(txRing) :
                   \E k \in 1..Len(txRing') : txRing'[k].id = txRing[j].id]_vars

\* The first packet was dropped without being sent; the packet allocated
\* after it was sent and the peer has observed nothing.
C12_Witness ==
    /\ Len(txRing) = 2 /\ ~txRing[1].sent /\ txRing[2].sent
    /\ \A t \in Threads : pid[t] = 0
    /\ txDelivered = <<>>
    /\ txSubmitted = <<2>>

\* ---- start_session

\* start_session is called with this capacity in this step.
StartCalled(c) == StartSessionInvalid(c) \/ StartSessionRejected(c) \/ StartSession(c)

InRange(c) == MIN_RING_CAPACITY <= c /\ c <= MAX_RING_CAPACITY
PowerOfTwo(c) == c \in {2 ^ k : k \in 0..30}

\* C13: start_session with a capacity outside [MIN, MAX] returns
\* CapacityOutOfRange, with a capacity inside it that is no power of two
\* CapacityNotPowerOfTwo; in both cases the driver is not called and neither
\* a ring nor a Session comes to be.  64 is refused as out of range and 5000
\* as no power of two.
C13_InvalidCapacityRefused ==
    /\ [][\A c \in Capacities : (StartCalled(c) /\ ~(InRange(c) /\ PowerOfTwo(c))) =>
             /\ startResult' = IF ~InRange(c) THEN "CapacityOutOfRange" ELSE "CapacityNotPowerOfTwo"
             /\ UNCHANGED <<ringCapacity, ringVars, sessVars>>]_vars
    /\ [][(StartCalled(64) => startResult' = "CapacityOutOfRange")
          /\ (StartCalled(5000) => startResult' = "CapacityNotPowerOfTwo")]_vars
    /\ [](ringCapacity # 0 => (InRange(ringCapacity) /\ PowerOfTwo(ringCapacity)))

\* 5000 was refused as no power of two before the driver was ever called.
C13_Witness ==
    startResult = "CapacityNotPowerOfTwo" /\ ringCapacity = 0 /\ ~ringOpen

\* C14 as the specification has it: start_session with a power of two
\* within [MIN, MAX] returns a Session.
C14_ValidCapacitySucceeds ==
    [][\A c \in Capacities : (StartCalled(c) /\ InRange(c) /\ PowerOfTwo(c)) =>
          startResult' = "Session"]_vars

\* C14: start_session with a power of two within [MIN, MAX] passes the
\* validation and calls WintunStartSession with that capacity; it returns a
\* new Session when the driver starts the ring and the shutdown event is
\* created, and an error that is not a capacity error when the driver
\* refuses (the adapter has a ring already) or the event cannot be created.
C14_ValidCapacityReachesDriver ==
    [][\A c \in Capacities : (StartCalled(c) /\ InRange(c) /\ PowerOfTwo(c)) =>
          /\ ringCapacity' = c
          /\ startResult' \in {"Session", "DriverRejected", "OsError"}
          /\ (startResult' = "Session") <=>
                (~ringOpen /\ ringOpen' /\ sessPc' = "alive" /\ shutdownEvt' = "open"
                 /\ sessionsCreated' = sessionsCreated + 1)
          /\ (startResult' = "DriverRejected") => (ringOpen /\ UNCHANGED <<ringVars, sessVars>>)
          /\ (startResult' = "OsError") => (~ringOpen /\ UNCHANGED sessVars)]_vars

\* 4096 opened a session.
C14_Witness ==
    startResult = "Session" /\ ringCapacity = 4096 /\ sessPc = "alive"

\* ---- receive calls

\* C15: try_receive returns within the call and touches neither event nor
\* any waiter.  It returns Some exactly when it took the packet at the head
\* of the queue, and then holds it as a ReceivePacket not yet released; it
\* returns None only on an empty queue; a failure of the driver is returned
\* as an error and leaves queue and Packet as they were.
C15_TryReceiveNeverWaits ==
    [][\A t \in Threads : TryReceive(t) =>
          /\ pc'[t] = "idle"
          /\ UNCHANGED <<pc, wres, readEvent, shutdownSet, task>>
          /\ result'[t] \in {"Some", "None", "OsError"}
          /\ (result'[t] = "Some") <=> (rxQueue # <<>> /\ rxQueue' = Tail(rxQueue))
          /\ (result'[t] = "Some") =>
                (pkt'[t] = "ReceivePacket" /\ rxOutstanding' = rxOutstanding + 1)
          /\ (result'[t] = "None") => (rxQueue = <<>> /\ UNCHANGED <<rxQueue, rxOutstanding, pkt>>)
          /\ (result'[t] = "OsError") => UNCHANGED <<rxQueue, rxOutstanding, pkt>>]_vars

\* One thread was answered None, the other holds the packet it was given,
\* while the queue is empty again.
C15_Witness ==
    \E t, u \in Threads :
        /\ result[t] = "None" /\ pkt[t] = "none" /\ pc[t] = "idle"
        /\ result[u] = "Some" /\ pkt[u] = "ReceivePacket" /\ pc[u] = "idle"
        /\ rxQueue = <<>>

\* A read took the packet at the head of the queue in this step.
TookPacket == rxQueue # <<>> /\ rxQueue' = Tail(rxQueue)

\* C16: a read that takes a packet longer than the destination buffer
\* returns the size error (InvalidInput from try_recv and recv, "Buffer too small"
\* from poll_read and AsyncSession::recv) and copies nothing, and poll_read
\* leaves the adapter Idle; a read into a buffer that is long enough copies
\* as many bytes as the packet has and returns that number.
C16_SmallBufferIsError ==
    /\ [][\A t \in Threads, n \in Sizes : (TryRecv(t, n) /\ TookPacket) =>
             IF n < Head(rxQueue)
             THEN result'[t] = "InvalidInput" /\ rd'[t] = NoRead
             ELSE /\ result'[t] = "Ok"
                  /\ rd'[t] = [copied |-> Head(rxQueue), len |-> Head(rxQueue)]]_vars
    /\ [][\A t \in Threads : (SpinRecv(t) /\ TookPacket) =>
             /\ pc'[t] = "idle"
             /\ IF buf[t] < Head(rxQueue)
                THEN result'[t] = "InvalidInput" /\ rd'[t] = NoRead
                ELSE /\ result'[t] = "Ok"
                     /\ rd'[t] = [copied |-> Head(rxQueue), len |-> Head(rxQueue)]]_vars
    /\ [][\A a \in Adapters : ((PollIdle(a) \/ RecvTry(a)) /\ TookPacket) =>
             /\ read_state'[a] = read_state[a]
             /\ apc'[a] = "idle"
             /\ IF abuf[a] < Head(rxQueue)
                THEN aresult'[a] = "BufferTooSmall" /\ ard'[a] = NoRead
                ELSE /\ aresult'[a] = "Data"
                     /\ ard'[a] = [copied |-> Head(rxQueue), len |-> Head(rxQueue)]]_vars
    /\ [][\A a \in Adapters : (PollIdle(a) /\ TookPacket) => read_state'[a] = "Idle"]_vars

\* poll_read refused a packet for the size of its buffer and the adapter is
\* Idle; a thread's try_recv was refused likewise.
C16_Witness ==
    /\ \E a \in Adapters :
          aresult[a] = "BufferTooSmall" /\ read_state[a] = "Idle" /\ ard[a] = NoRead
    /\ \E t \in Threads : result[t] = "InvalidInput" /\ rd[t] = NoRead

\* ---- write calls

\* The request is one the driver has no buffer for: more bytes than a
\* packet may have, or no room in the ring.
Refused(len) == len > U16_MAX \/ Len(txRing) >= MaxSendRing

\* C17: a write of a length the driver has no buffer for returns the
\* driver's error, whichever call makes it, and neither allocates nor
\* submits nor delivers anything.
C17_RefusedWriteIsError ==
    /\ [][\A t \in Threads, size \in Sizes, tag \in Tags :
             (AllocateSendPacket(t, size, tag) /\ Refused(size)) =>
                (sres'.kind = "OsError" /\ UNCHANGED <<txRing, txSubmitted, txDelivered>>)]_vars
    /\ [][\A t \in Threads, b \in SendBufs : (Send(t, b) /\ Refused(b.len)) =>
                (sres'.kind = "OsError" /\ UNCHANGED <<txRing, txSubmitted, txDelivered>>)]_vars
    /\ [][\A a \in Adapters, b \in SendBufs : (AsyncSend(a, b) /\ Refused(b.len)) =>
                (sres'.kind = "OsError" /\ UNCHANGED <<txRing, txSubmitted, txDelivered>>)]_vars

\* The bytes the caller gave for the packet with this id.
InputOf(d) == txInput[d.id]

\* C18: every packet the peer observes has the length and the bytes its
\* sender gave, all of them written; a send of s bytes, 0 < s <= u16::MAX,
\* on a ring with nothing waiting in it hands exactly that packet to the
\* peer within the call and returns s.
C18_ContentRoundTrip ==
    /\ [](\A i \in 1..Len(txDelivered) :
             /\ txDelivered[i].len = InputOf(txDelivered[i]).len
             /\ txDelivered[i].tag = InputOf(txDelivered[i]).tag
             /\ txDelivered[i].filled = txDelivered[i].len)
    /\ [][\A b \in SendBufs :
             (((\E t \in Threads : Send(t, b)) \/ (\E a \in Adapters : AsyncSend(a, b)))
              /\ b.len <= U16_MAX /\ txRing = <<>>) =>
                /\ sres' = [kind |-> "Ok", n |-> b.len]
                /\ Len(txDelivered') = Len(txDelivered) + 1
                /\ txDelivered'[Len(txDelivered')].len = b.len
                /\ txDelivered'[Len(txDelivered')].tag = b.tag
                /\ txDelivered'[Len(txDelivered')].filled = b.len
                /\ txRing' = <<>>]_vars

\* Two packets of different length and content reached the peer as given,
\* the last one through a send that returned its length.
C18_Witness ==
    /\ Len(txDelivered) = 2
    /\ txDelivered[1].len = 1 /\ txDelivered[1].tag = "x"
    /\ txDelivered[2].len = U16_MAX /\ txDelivered[2].tag = "y"
    /\ txDelivered[2].filled = U16_MAX
    /\ sres = [kind |-> "Ok", n |-> U16_MAX]

\* ---- waits

\* C19: no thread and no task of the pool stays blocked in a wait while the
\* shutdown event or the read event of the Session is signalled: each wait
\* is on both events.
C19_WaitsOnBothEvents ==
    (shutdownSet \/ readEvent) => (BlockedThreads = {} /\ BlockedSlots = {})

\* Shutdown released a thread blocked in receive_blocking and an offloaded
\* wait at once.
C19_Witness ==
    /\ shutdownSet
    /\ \E t \in Threads : pc[t] = "woken" /\ wres[t] = WAIT_OBJECT_1
    /\ \E a \in Adapters : task[ReadSlot(a)] = "Shutdown"

\* C20: a call of shutdown() leaves the session handle, the ring, the
\* packets queued in either direction and the count of WintunEndSession
\* calls as they were; and whenever a thread calls allocate_send_packet,
\* send_packet or try_receive, shutdown or not, the ring is started, not
\* ended, and the handle is not null.
C20_ShutdownOnlySignals ==
    /\ [][Shutdown =>
             UNCHANGED <<inner, endCalls, sessionsEnded, sessPc, ringOpen, rxQueue,
                         rxOutstanding, readEvent, txRing, txSubmitted, txDelivered, pkt>>]_vars
    /\ [][(\E t \in Threads :
               \/ TryReceive(t)
               \/ AllocateSendPacket(t, MaxSize, "x")
               \/ SendPacket(t)) =>
             (ringOpen /\ inner = "handle" /\ endCalls = 0 /\ sessPc = "alive")]_vars
    /\ []((shutdownSet /\ sessPc = "alive") => (ringOpen /\ inner = "handle" /\ endCalls = 0))
    /\ [](\A t \in Threads : (shutdownSet /\ CanCall(t)) =>
             /\ (pkt[t] = "none" /\ rxQueue # <<>>) =>
                   ENABLED (TryReceive(t) /\ result'[t] = "Some")
             /\ (pkt[t] = "none" /\ Len(txInput) < MaxSend /\ Len(txRing) < MaxSendRing) =>
                   ENABLED (AllocateSendPacket(t, MaxSize, "x") /\ sres'.kind = "Packet")
             /\ (pkt[t] = "SendPacketPending") =>
                   ENABLED (SendPacket(t) /\ Len(txSubmitted') = Len(txSubmitted) + 1))

\* After shutdown and before the Session is destroyed a packet waits in the
\* receive queue for a thread that may call try_receive, and another thread
\* holds an allocated packet it may send.
C20_Witness ==
    /\ shutdownSet /\ sessPc = "alive"
    /\ \E t, u \in Threads :
          /\ CanCall(t) /\ pkt[t] = "none" /\ rxQueue # <<>>
          /\ CanCall(u) /\ pkt[u] = "SendPacketPending"

\* ---- the two waits compared

\* What WaitForMultipleObjects returns, in this state, to a wait on handles h
\* of which one is signalled.
WaitResult(h) == WAIT_OBJECT_0 + FirstSignalled(h) - 1

\* What the caller of wait_read is told.
SyncReport(r) ==
    CASE wait_read(r) = "Ok" -> "data ready"
      [] wait_read(r) = "ShuttingDown" -> "shutdown"
      [] wait_read(r) = "OsError" -> "error"
      [] OTHER -> "panic"

\* What the closure of the offloaded wait returns.
AsyncReport(r) ==
    CASE wait_for_read(r) = "Ready" -> "data ready"
      [] wait_for_read(r) = "Shutdown" -> "shutdown"
      [] OTHER -> "panic"

\* C21: whenever a thread is about to enter the wait of receive_blocking and
\* a closure of the pool is about to enter the offloaded wait, with one or
\* both events signalled, the two waits report the same outcome; and a wait
\* that fails is reported by both as an error.
C21_SameWaitSemantics ==
    \A t \in Threads, s \in Slots :
        (pc[t] = "wait" /\ task[s] = "spawned") =>
            /\ Satisfied(SyncHandles) =>
                  SyncReport(WaitResult(SyncHandles)) = AsyncReport(WaitResult(AsyncHandles))
            /\ SyncReport(WAIT_FAILED) = "error" /\ AsyncReport(WAIT_FAILED) = "error"

\* C22: receive_blocking (and Session::recv, built on the same wait) returns
\* ShuttingDown only from its wait and only with the shutdown signal set; a
\* call that ends without a packet after a driver failure returns the OS
\* error; a wait that failed returns the OS error; a wake-up by the read
\* event sends the caller back to the queue and returns nothing.
C22_ShutdownDistinguishable ==
    /\ [][\A t \in Threads :
              (result'[t] = "ShuttingDown" /\ result[t] # "ShuttingDown") =>
                  /\ shutdownSet
                  /\ pc[t] \in {"wait", "woken"}
                  /\ WaitEnter(t) \/ WaitReturn(t)]_vars
    /\ [][\A t \in Threads :
              (SpinReceiveBlocking(t) /\ pc'[t] = "idle" /\ pkt'[t] = "none") =>
                  result'[t] = "OsError"]_vars
    /\ [][\A t \in Threads :
              \/ WaitEnter(t) /\ Satisfied(SyncHandles)
                   /\ SyncHandles[FirstSignalled(SyncHandles)] = "read"
              \/ WaitReturn(t) /\ wres[t] = WAIT_OBJECT_0
              => pc'[t] = "try" /\ tries'[t] = 0 /\ result'[t] = result[t]]_vars
    /\ [](wait_read(WAIT_FAILED) = "OsError")

\* One thread was returned ShuttingDown by its wait, the other the OS error
\* of a failed receive.
C22_Witness ==
    /\ shutdownSet
    /\ \E t, u \in Threads :
          /\ pc[t] = "idle" /\ result[t] = "ShuttingDown"
          /\ pc[u] = "idle" /\ result[u] = "OsError"

\* ---- the read state of the AsyncSession

\* ReadState without the content of Waiting
StateKind(st) == IF st = "WaitingNone" THEN "Waiting" ELSE st

ReadStateMoves ==
    {<<"Idle", "Waiting">>, <<"Waiting", "Idle">>, <<"Waiting", "Closed">>}

\* The read state of a changed in this step, the AsyncSession being the same.
Moves(a, from, to) ==
    /\ aref[a] /\ aref'[a]
    /\ StateKind(read_state[a]) = from /\ StateKind(read_state'[a]) = to

\* C23: the read state of an AsyncSession changes only from Idle to Waiting
\* (in poll_read, on an empty queue, with a wait offloaded), from Waiting to
\* Idle (the wait reported Ready) and from Waiting to Closed (it reported
\* Shutdown); Closed is never left; poll_read in Closed returns zero bytes
\* and touches neither the ring nor the pool.
C23_ReadStateMachine ==
    /\ [][\A a \in Adapters :
              (aref[a] /\ aref'[a] /\ StateKind(read_state'[a]) # StateKind(read_state[a]))
              => <<StateKind(read_state[a]), StateKind(read_state'[a])>> \in ReadStateMoves]_vars
    /\ [][\A a \in Adapters : Moves(a, "Idle", "Waiting") =>
              /\ PollIdle(a) /\ rxQueue = <<>>
              /\ task[ReadSlot(a)'] = "none" /\ task'[ReadSlot(a)'] = "spawned"]_vars
    /\ [][\A a \in Adapters : Moves(a, "Waiting", "Idle") =>
              PollWaiting(a) /\ task[ReadSlot(a)] = "Ready"]_vars
    /\ [][\A a \in Adapters : Moves(a, "Waiting", "Closed") =>
              PollWaiting(a) /\ task[ReadSlot(a)] = "Shutdown"]_vars
    /\ [][\A a \in Adapters : PollClosed(a) =>
              /\ aresult'[a] = "Eof" /\ apc'[a] = "idle"
              /\ UNCHANGED <<ringVars, task, read_state>>]_vars
    /\ [][\A a \in Adapters :
              (read_state[a] = "Closed" /\ apc[a] = "poll" /\ apc'[a] # "poll") => PollClosed(a)]_vars

\* A reader went Idle, Waiting, Idle, and another time to Waiting and on to
\* Closed, where its read returned zero bytes.
C23_Witness ==
    \E a \in Adapters :
        /\ aref[a] /\ read_state[a] = "Closed"
        /\ aresult[a] = "Eof" /\ apc[a] = "idle"
        /\ task[ReadSlot(a)] = "none"

\* C25: while a closure of the pool is about to call, or is inside, the wait
\* on the two handles of a Session, that Session has not been ended and its
\* shutdown event has not been closed.
C25_WaitOnLiveSession ==
    \A s \in Slots :
        task[s] \in {"spawned", "blocked", "dangling"} =>
            /\ task[s] # "dangling"
            /\ sessPc \in {"alive", "drop_begin", "drop_signalled"}
            /\ ringOpen /\ endCalls = 0 /\ shutdownEvt = "open"

\* C27: a ring the driver has started and not ended belongs to a Session
\* whose Drop has yet to call WintunEndSession, and no ring is ended twice.
C27_RingReleased ==
    /\ ringOpen => sessPc \in {"alive", "drop_begin", "drop_signalled"}
    /\ endCalls <= 1

\* C29: every buffer in the send ring has the length of the buffer its
\* caller gave: the driver was asked for exactly that many bytes.
C29_AllocatedLengthIsBufferLength ==
    \A i \in 1..Len(txRing) : txRing[i].len = InputOf(txRing[i]).len

\* The ids handed to WintunSendPacket so far are pairwise different.
NoDoubleSubmit ==
    \A i, j \in 1..Len(txSubmitted) : txSubmitted[i] = txSubmitted[j] => i = j

\* C24: a Packet a thread holds only appears as ReceivePacket or
\* SendPacketPending and only goes away again (a ReceivePacket is released
\* when it goes, a pending send packet is never turned into another kind);
\* send_packet hands the driver a buffer only for a SendPacketPending
\* packet, exactly that packet's buffer, and leaves the caller without the
\* Packet, so that no buffer is submitted twice; send_packet on a packet of
\* another kind panics with no driver call: nothing is submitted or
\* delivered and the send ring is untouched.  (WintunEndSession frees the
\* ring and with it the record of what was submitted.)
C24_PacketStateMachine ==
    /\ [][\A t \in Threads :
            pkt'[t] # pkt[t] =>
                \/ pkt[t] = "none" /\ pkt'[t] \in {"ReceivePacket", "SendPacketPending"}
                \/ pkt[t] \in {"ReceivePacket", "SendPacketPending"} /\ pkt'[t] = "none"]_vars
    /\ [][\A t \in Threads :
            (pkt[t] = "ReceivePacket" /\ pkt'[t] = "none") =>
                rxOutstanding' = rxOutstanding - 1]_vars
    /\ [][(txSubmitted' # txSubmitted /\ ~DropEndSession) =>
            \E t \in Threads :
                /\ SendPacket(t) /\ pkt[t] = "SendPacketPending"
                /\ txSubmitted' = Append(txSubmitted, pid[t])
                /\ pkt'[t] = "none" /\ pid'[t] = 0]_vars
    /\ [][\A t \in Threads :
            (SendPacket(t) /\ pkt[t] # "SendPacketPending") =>
                /\ sres'.kind = "panic"
                /\ UNCHANGED <<txRing, txSubmitted, txDelivered>>
                /\ pkt'[t] = "none"]_vars
    /\ []NoDoubleSubmit

\* One thread's send_packet on a received Packet has panicked while a
\* buffer submitted before it stays submitted once, and another thread
\* holds a pending send packet.
C24_Witness ==
    /\ sres.kind = "panic"
    /\ Len(txSubmitted) = 1
    /\ \E t \in Threads : pkt[t] = "SendPacketPending" /\ pid[t] \notin {txSubmitted[i] : i \in 1..Len(txSubmitted)}


\* C28: every WintunSendPacket call made with the handle of a Session
\* passes a buffer that was allocated from that Session: no call made with
\* the second Session's handle carries a buffer of this Session.
C28_SubmittedThroughAllocator ==
    \A i \in 1..Len(otherCalls) : otherCalls[i] = "other"


\* C26: the output of an offloaded wait is taken once: poll_read never
\* polls a Task whose output was already delivered to a poll_read, whether
\* of the same AsyncSession or of a clone holding the same Task.
C26_WaitResultConsumedOnce ==
    [][\A a \in Adapters :
          (PollWaiting(a) /\ read_state[a] = "Waiting") =>
              task[ReadSlot(a)] \notin {"taken", "poisoned"}]_vars

\* C30: a poll_read that returns Pending leaves the AsyncSession in Waiting
\* holding a Task that has still to finish (the poll registered the waker
\* with it), and an AsyncSession that is not inside poll_read is never in
\* Waiting without a task.
C30_PendingHoldsTask ==
    /\ [][\A a \in Adapters :
            (apc[a] = "poll" /\ apc'[a] = "pending") =>
                /\ read_state'[a] = "Waiting"
                /\ task'[ReadSlot(a)'] \in {"spawned", "blocked"}]_vars
    /\ [](\A a \in Adapters : (aref[a] /\ apc[a] # "poll") => read_state[a] # "WaitingNone")

====
